---- MODULE Spec2Model ----
(***************************************************************************)
(* A model of the dt31 virtual CPU (src/src/dt31/cpu.py), its operands     *)
(* (operands.py), its instruction set (instructions.py) and the two-pass   *)
(* assembler (assembler.py).                                               *)
(*                                                                         *)
(* A CPU is the record [registers, memory, stack, instructions,            *)
(* memory_size, stack_size, wrap_memory]; every method is an operator from a CPU (and arguments) to *)
(* an outcome [cpu, err, val]: the CPU after the call, the exception it    *)
(* raised ("none" when it returned) and the value it returned.  A raised   *)
(* exception keeps the side effects applied before it, as in Python.       *)
(***************************************************************************)
EXTENDS Integers, Sequences, FiniteSets, TLC

VARIABLES
    cpu,        \* the DT31 object: registers, memory, stack, instructions, configuration
    running,    \* TRUE while DT31.run is inside its loop
    result,     \* outcome of the last call made on the CPU: [op, err, val]
    output,     \* what the program has printed so far
    program,    \* the list handed to assemble
    assembled,  \* what assemble returned or raised
    pending,    \* history: the calls and pushes not yet returned from or popped
    stdin,      \* the lines input() returns to a scenario, and how many were read
    trace,      \* history: the indexes a scenario executed since its load
    cpu2        \* a second DT31 object, None while there is none

vars == <<cpu, running, result, output, program, assembled, pending, stdin, trace, cpu2>>

(* The variables that only the scenario and two-CPU clients change. *)
others == <<stdin, trace, cpu2>>

(***************************************************************************)
(* Bounds of the model.                                                    *)
(***************************************************************************)
MemSize == 2
StackSize == 2
MaxVal == 1
MaxIp == 3
MaxOut == 1
MaxAsmLen == 3
RunFuel == 16
MaxN == 5
MaxTrace == 32
MaxPairSteps == 6
MaxSize == 2
MaxDerefOps == 4
MaxDiv == 3

Val == (0 - MaxVal)..MaxVal
IpVal == (0 - 1)..MaxIp
StackVal == Val \cup IpVal

(***************************************************************************)
(* Operands (operands.py) and instructions (instructions.py) as records.   *)
(***************************************************************************)
Literal(v) == [k |-> "lit", value |-> v]
RegisterReference(r) == [k |-> "reg", register |-> r]
MemoryReference(a) == [k |-> "mem", address |-> a]
Label(n) == [k |-> "label", name |-> n]
Comment == [k |-> "comment"]
None == [k |-> "none"]

IsReference(op) == op.k \in {"reg", "mem"}

Ra == RegisterReference("a")
Rip == RegisterReference("ip")
Rz == RegisterReference("z")
M0 == MemoryReference(Literal(0))
M1 == MemoryReference(Literal(1))

I0(n) == [k |-> "instr", name |-> n]
IOut(n, o) == [k |-> "instr", name |-> n, out |-> o]
IA(n, x) == [k |-> "instr", name |-> n, a |-> x]
UnaryOperation(n, x, o) == [k |-> "instr", name |-> n, a |-> x, out |-> o]
BinaryOperation(n, x, y, o) == [k |-> "instr", name |-> n, a |-> x, b |-> y, out |-> o]
Jump(n, d) == [k |-> "instr", name |-> n, dest |-> d]
UnaryJump(n, d, x) == [k |-> "instr", name |-> n, dest |-> d, a |-> x]
BinaryJump(n, d, x, y) == [k |-> "instr", name |-> n, dest |-> d, a |-> x, b |-> y]
IOOut(n, x, y) == [k |-> "instr", name |-> n, a |-> x, b |-> y]

(***************************************************************************)
(* Construction.  An argument is a Python value: an int, an operand, a     *)
(* Label or None.  as_op and the __init__ methods return the object built  *)
(* or the ValueError raised.                                               *)
(***************************************************************************)
PyInt(v) == [k |-> "int", value |-> v]
IsOperand(arg) == arg.k \in {"lit", "reg", "mem"}
Built(obj) == [err |-> "none", obj |-> obj]
Raise(e) == [err |-> e, obj |-> None]

as_op(arg) ==
    IF IsOperand(arg) THEN Built(arg)
    ELSE IF arg.k = "int" THEN Built(Literal(arg.value))
    ELSE Raise("can't coerce value into operand")

Jump_init(name, dest) ==
    LET d == as_op(dest)
    IN IF d.err # "none" THEN d ELSE Built(Jump(name, d.obj))

UnaryJump_init(name, dest, a) ==
    LET d == as_op(dest)
        x == as_op(a)
    IN IF d.err # "none" THEN d
       ELSE IF x.err # "none" THEN x
       ELSE Built(UnaryJump(name, d.obj, x.obj))

BinaryJump_init(name, dest, a, b) ==
    LET d == as_op(dest)
        x == as_op(a)
        y == as_op(b)
    IN IF d.err # "none" THEN d
       ELSE IF x.err # "none" THEN x
       ELSE IF y.err # "none" THEN y
       ELSE Built(BinaryJump(name, d.obj, x.obj, y.obj))

UnaryOperation_init(name, a, out) ==
    LET x == as_op(a)
    IN IF x.err # "none" THEN x
       ELSE IF ~(out = None \/ IsReference(out))
       THEN Raise("argument out must be a Reference or None")
       ELSE IF out # None THEN Built(UnaryOperation(name, x.obj, out))
       ELSE IF IsReference(x.obj) THEN Built(UnaryOperation(name, x.obj, x.obj))
       ELSE Raise("must be called with a reference as operand out or a")

BinaryOperation_init_unchecked_out(name, a, b, out) ==
    LET x == as_op(a)
        y == as_op(b)
    IN IF x.err # "none" THEN x
       ELSE IF y.err # "none" THEN y
       ELSE IF IsReference(out) THEN Built(BinaryOperation(name, x.obj, y.obj, out))
       ELSE IF IsReference(x.obj) THEN Built(BinaryOperation(name, x.obj, y.obj, x.obj))
       ELSE Raise("must be called with a reference as operand out or a")

BinaryOperation_init(name, a, b, out) ==
    LET x == as_op(a)
        y == as_op(b)
    IN IF x.err # "none" THEN x
       ELSE IF y.err # "none" THEN y
       ELSE IF ~(out = None \/ IsReference(out))
       THEN Raise("argument out must be a Reference or None")
       ELSE IF IsReference(out) THEN Built(BinaryOperation(name, x.obj, y.obj, out))
       ELSE IF IsReference(x.obj) THEN Built(BinaryOperation(name, x.obj, y.obj, x.obj))
       ELSE Raise("must be called with a reference as operand out or a")

BinaryNames == {"ADD", "SUB", "MUL", "DIV", "MOD", "LT", "GT", "LE", "GE",
                "EQ", "NE", "AND", "OR", "XOR"}
UnaryNames == {"BNOT", "NOT", "CP"}
ExactJumpNames == {"JMP", "JEQ", "JNE", "JGT", "JGE", "JIF", "CALL"}
RelativeJumpNames == {"RJMP", "RJEQ", "RJNE", "RJGT", "RJGE", "RJIF", "RCALL"}
UnconditionalNames == {"JMP", "RJMP", "CALL", "RCALL"}
CallNames == {"CALL", "RCALL"}
JumpNames == ExactJumpNames \cup RelativeJumpNames

(***************************************************************************)
(* Outcomes.                                                               *)
(***************************************************************************)
Ok(c, v) == [cpu |-> c, err |-> "none", val |-> v]
Fail(c, e) == [cpu |-> c, err |-> e, val |-> 0]

(***************************************************************************)
(* cpu.py: DT31.                                                           *)
(***************************************************************************)
DT31(regs, msize, ssize, wrap) ==
    [registers |-> [r \in regs \cup {"ip"} |-> 0],
     memory |-> [i \in 0..(msize - 1) |-> 0],
     stack |-> <<>>,
     instructions |-> <<>>,
     memory_size |-> msize,
     stack_size |-> ssize,
     wrap_memory |-> wrap]

pop_from_bottom(c) ==
    IF Len(c.stack) = 0 THEN Fail(c, "stack underflow")
    ELSE Ok([c EXCEPT !.stack = SubSeq(c.stack, 2, Len(c.stack))], c.stack[1])

pop(c) ==
    IF Len(c.stack) = 0 THEN Fail(c, "stack underflow")
    ELSE Ok([c EXCEPT !.stack = SubSeq(c.stack, 1, Len(c.stack) - 1)],
            c.stack[Len(c.stack)])

push_dropping_when_full(c, value) ==
    IF Len(c.stack) = c.stack_size THEN Ok(c, 0)
    ELSE Ok([c EXCEPT !.stack = Append(c.stack, value)], 0)

push(c, value) ==
    IF Len(c.stack) = c.stack_size THEN Fail(c, "stack overflow")
    ELSE Ok([c EXCEPT !.stack = Append(c.stack, value)], 0)

get_memory(c, index) ==
    IF c.wrap_memory THEN Ok(c, c.memory[index % c.memory_size])
    ELSE IF ~(0 <= index /\ index < c.memory_size)
         THEN Fail(c, "memory has no index")
         ELSE Ok(c, c.memory[index])

set_memory_python_index(c, index, value) ==
    IF c.wrap_memory
    THEN Ok([c EXCEPT !.memory[index % c.memory_size] = value], 0)
    ELSE IF ~(0 - c.memory_size <= index /\ index < c.memory_size)
         THEN Fail(c, "memory has no index")
         ELSE Ok([c EXCEPT !.memory[index % c.memory_size] = value], 0)

set_memory(c, index, value) ==
    IF c.wrap_memory
    THEN Ok([c EXCEPT !.memory[index % c.memory_size] = value], 0)
    ELSE IF ~(0 <= index /\ index < c.memory_size)
         THEN Fail(c, "memory has no index")
         ELSE Ok([c EXCEPT !.memory[index] = value], 0)

get_register(c, register) ==
    IF register \notin DOMAIN c.registers THEN Fail(c, "unknown register")
    ELSE Ok(c, c.registers[register])

set_register_creating(c, register, value) ==
    Ok([c EXCEPT !.registers = [r \in DOMAIN c.registers \cup {register} |->
                                   IF r = register THEN value ELSE c.registers[r]]],
       value)

set_register(c, register, value) ==
    IF register \notin DOMAIN c.registers THEN Fail(c, "unknown register")
    ELSE Ok([c EXCEPT !.registers[register] = value], value)

(***************************************************************************)
(* operands.py: resolve.  A Label always raises.                           *)
(***************************************************************************)
RECURSIVE resolve(_, _)
resolve(c, op) ==
    CASE op.k = "lit" -> Ok(c, op.value)
      [] op.k = "reg" -> get_register(c, op.register)
      [] op.k = "mem" ->
            LET a == resolve(c, op.address)
            IN IF a.err # "none" THEN a ELSE get_memory(c, a.val)
      [] op.k = "label" -> Fail(c, "unresolved label")
      [] OTHER -> Fail(c, "not an operand")

resolve_address(c, op) == resolve(c, op.address)

setitem_at_value(c, arg, value) ==
    CASE arg.k = "mem" ->
            LET a == resolve(c, arg)
            IN IF a.err # "none" THEN a ELSE set_memory(c, a.val, value)
      [] arg.k = "reg" -> set_register(c, arg.register, value)
      [] OTHER -> Fail(c, "can't get item")

setitem(c, arg, value) ==
    CASE arg.k = "mem" ->
            LET a == resolve_address(c, arg)
            IN IF a.err # "none" THEN a ELSE set_memory(c, a.val, value)
      [] arg.k = "reg" -> set_register(c, arg.register, value)
      [] OTHER -> Fail(c, "can't get item")

(***************************************************************************)
(* Python integer arithmetic and conversions used by the instructions.     *)
(***************************************************************************)
FloorDiv_truncating(x, y) ==
    LET ax == IF x < 0 THEN 0 - x ELSE x
        ay == IF y < 0 THEN 0 - y ELSE y
    IN IF (x < 0) # (y < 0) THEN 0 - (ax \div ay) ELSE ax \div ay

FloorDiv(x, y) == IF y > 0 THEN x \div y ELSE (0 - x) \div (0 - y)
PyMod(x, y) == x - y * FloorDiv(x, y)
Bool2Int(p) == IF p THEN 1 ELSE 0

Digit(d) == CASE d = 0 -> "0" [] d = 1 -> "1" [] d = 2 -> "2" [] d = 3 -> "3"
              [] d = 4 -> "4" [] d = 5 -> "5" [] d = 6 -> "6" [] d = 7 -> "7"
              [] d = 8 -> "8" [] d = 9 -> "9"

RECURSIVE str(_)
str(n) == IF n < 0 THEN "-" \o str(0 - n)
          ELSE IF n < 10 THEN Digit(n)
          ELSE str(n \div 10) \o Digit(n % 10)

ParseRange == (0 - 9)..9
IsIntText(s) == \E n \in ParseRange : str(n) = s
int(s) == CHOOSE n \in ParseRange : str(n) = s

(***************************************************************************)
(* instructions.py: _calc of every instruction class.  inp is the line     *)
(* input() returns, read only by NIN and OIN.                              *)
(***************************************************************************)
BinaryValue_mul_as_add(n, x, y) ==
    CASE n = "ADD" -> x + y
      [] n = "SUB" -> x - y
      [] n = "MUL" -> x + y
      [] n = "DIV" -> FloorDiv(x, y)
      [] n = "MOD" -> PyMod(x, y)
      [] n = "LT" -> Bool2Int(x < y)
      [] n = "GT" -> Bool2Int(x > y)
      [] n = "LE" -> Bool2Int(x <= y)
      [] n = "GE" -> Bool2Int(x >= y)
      [] n = "EQ" -> Bool2Int(x = y)
      [] n = "NE" -> Bool2Int(x # y)

BinaryValue(n, x, y) ==
    CASE n = "ADD" -> x + y
      [] n = "SUB" -> x - y
      [] n = "MUL" -> x * y
      [] n = "DIV" -> FloorDiv(x, y)
      [] n = "MOD" -> PyMod(x, y)
      [] n = "LT" -> Bool2Int(x < y)
      [] n = "GT" -> Bool2Int(x > y)
      [] n = "LE" -> Bool2Int(x <= y)
      [] n = "GE" -> Bool2Int(x >= y)
      [] n = "EQ" -> Bool2Int(x = y)
      [] n = "NE" -> Bool2Int(x # y)

calc_binary(c, inst) ==
    LET x == resolve(c, inst.a)
        y == resolve(c, inst.b)
    IN IF x.err # "none" THEN x
       ELSE CASE inst.name = "AND" ->
                    (* int(a and b): b is resolved only when a is nonzero *)
                    IF x.val = 0 THEN Ok(c, 0) ELSE y
              [] inst.name = "OR" ->
                    IF x.val # 0 THEN Ok(c, x.val) ELSE y
              [] inst.name = "XOR" ->
                    IF y.err # "none" THEN y
                    ELSE Ok(c, Bool2Int((x.val # 0 /\ y.val = 0)
                                        \/ (y.val # 0 /\ x.val = 0)))
              [] OTHER ->
                    IF y.err # "none" THEN y
                    ELSE IF inst.name \in {"DIV", "MOD"} /\ y.val = 0
                         THEN Fail(c, "division by zero")
                         ELSE Ok(c, BinaryValue(inst.name, x.val, y.val))

calc_unary(c, inst) ==
    LET x == resolve(c, inst.a)
    IN IF x.err # "none" THEN x
       ELSE CASE inst.name = "BNOT" -> Ok(c, (0 - x.val) - 1)
              [] inst.name = "NOT" -> Ok(c, Bool2Int(x.val = 0))
              [] inst.name = "CP" ->
                    LET w == setitem(c, inst.out, x.val)
                    IN IF w.err # "none" THEN w ELSE Ok(w.cpu, x.val)

calc_call_pushing_ip(c, inst) ==
    LET p == get_register(c, "ip")
        q == push(c, p.val)
    IN IF q.err # "none" THEN q ELSE Ok(q.cpu, 0)

calc_call(c, inst) ==
    LET p == get_register(c, "ip")
        q == push(c, p.val + 1)
    IN IF q.err # "none" THEN q ELSE Ok(q.cpu, 0)

calc_push(c, inst) ==
    LET x == resolve(c, inst.a)
    IN IF x.err # "none" THEN x
       ELSE LET q == push(c, x.val)
            IN IF q.err # "none" THEN q ELSE Ok(q.cpu, 0)

calc_pop_default_on_empty(c, inst) ==
    LET v == IF Len(c.stack) = 0 THEN Ok(c, 0) ELSE pop(c)
    IN IF inst.out = None THEN Ok(v.cpu, 0)
       ELSE LET w == setitem(v.cpu, inst.out, v.val)
            IN IF w.err # "none" THEN w ELSE Ok(w.cpu, 0)

calc_pop(c, inst) ==
    LET v == pop(c)
    IN IF v.err # "none" THEN v
       ELSE IF inst.out = None THEN Ok(v.cpu, 0)
       ELSE LET w == setitem(v.cpu, inst.out, v.val)
            IN IF w.err # "none" THEN w ELSE Ok(w.cpu, 0)

calc_semp(c, inst) ==
    LET value == IF Len(c.stack) # 0 THEN 0 ELSE 1
        w == setitem(c, inst.out, value)
    IN IF w.err # "none" THEN w ELSE Ok(w.cpu, value)

calc_out(c, inst) ==
    LET y == resolve(c, inst.b)
        x == resolve(c, inst.a)
    IN IF y.err # "none" THEN y
       ELSE IF x.err # "none" THEN x
       ELSE IF inst.name = "OOUT" /\ x.val < 0 THEN Fail(c, "chr() arg not in range")
       ELSE Ok(c, 0)

calc_nin(c, inst, inp) ==
    IF ~IsIntText(inp) THEN Fail(c, "invalid literal for int()")
    ELSE LET w == setitem(c, inst.out, int(inp))
         IN IF w.err # "none" THEN w ELSE Ok(w.cpu, int(inp))

Ord(ch) == CASE ch = "A" -> 65 [] ch = "B" -> 66 [] OTHER -> 63

calc_oin(c, inst, inp) ==
    IF Len(inp) # 1 THEN Fail(c, "ord() expected a character")
    ELSE LET w == setitem(c, inst.out, Ord(inp))
         IN IF w.err # "none" THEN w ELSE Ok(w.cpu, Ord(inp))

calc(c, inst, inp) ==
    CASE inst.name = "NOOP" -> Ok(c, 0)
      [] inst.name \in BinaryNames -> calc_binary(c, inst)
      [] inst.name \in UnaryNames -> calc_unary(c, inst)
      [] inst.name \in CallNames -> calc_call(c, inst)
      [] inst.name \in JumpNames \ CallNames -> Ok(c, 0)
      [] inst.name = "RET" -> Ok(c, 0)
      [] inst.name = "PUSH" -> calc_push(c, inst)
      [] inst.name = "POP" -> calc_pop(c, inst)
      [] inst.name = "SEMP" -> calc_semp(c, inst)
      [] inst.name \in {"NOUT", "OOUT"} -> calc_out(c, inst)
      [] inst.name = "NIN" -> calc_nin(c, inst, inp)
      [] inst.name = "OIN" -> calc_oin(c, inst, inp)

(* What the instruction writes to standard output when executed in c. *)
printed(c, inst) ==
    IF inst.k = "instr" /\ inst.name \in {"NOUT", "OOUT"} /\ calc_out(c, inst).err = "none"
    THEN LET end == IF resolve(c, inst.b).val # 0 THEN "\n" ELSE ""
         IN IF inst.name = "NOUT"
            THEN <<[text |-> str(resolve(c, inst.a).val), end |-> end]>>
            ELSE <<[chr |-> resolve(c, inst.a).val, end |-> end]>>
    ELSE <<>>

(***************************************************************************)
(* instructions.py: _advance.                                              *)
(***************************************************************************)
jump_condition(c, inst) ==
    LET n == inst.name
    IN IF n \in UnconditionalNames THEN Ok(c, 1)
       ELSE LET x == resolve(c, inst.a)
            IN IF x.err # "none" THEN x
               ELSE IF n \in {"JIF", "RJIF"} THEN Ok(c, Bool2Int(x.val # 0))
               ELSE LET y == resolve(c, inst.b)
                    IN IF y.err # "none" THEN y
                       ELSE CASE n \in {"JEQ", "RJEQ"} -> Ok(c, Bool2Int(x.val = y.val))
                              [] n \in {"JNE", "RJNE"} -> Ok(c, Bool2Int(x.val # y.val))
                              [] n \in {"JGT", "RJGT"} -> Ok(c, Bool2Int(x.val > y.val))
                              [] n \in {"JGE", "RJGE"} -> Ok(c, Bool2Int(x.val >= y.val))

RelativeJumpDestinationIgnoringIp(c, inst) == resolve(c, inst.dest)

ExactJumpDestination(c, inst) == resolve(c, inst.dest)

RelativeJumpDestination(c, inst) ==
    LET p == get_register(c, "ip")
        d == resolve(c, inst.dest)
    IN IF d.err # "none" THEN d ELSE Ok(c, p.val + d.val)

jump_destination(c, inst) ==
    IF inst.name \in RelativeJumpNames THEN RelativeJumpDestination(c, inst)
    ELSE ExactJumpDestination(c, inst)

advance_default_by_two(c) == set_register(c, "ip", get_register(c, "ip").val + 2)

advance_default(c) == set_register(c, "ip", get_register(c, "ip").val + 1)

advance_jump_resolving_first(c, inst) ==
    LET d == jump_destination(c, inst)
        cond == jump_condition(c, inst)
    IN IF d.err # "none" THEN d
       ELSE IF cond.err # "none" THEN cond
       ELSE IF cond.val = 1 THEN set_register(c, "ip", d.val)
       ELSE advance_default(c)

advance_jump(c, inst) ==
    LET cond == jump_condition(c, inst)
    IN IF cond.err # "none" THEN cond
       ELSE IF cond.val = 1
            THEN LET d == jump_destination(c, inst)
                 IN IF d.err # "none" THEN d ELSE set_register(c, "ip", d.val)
            ELSE advance_default(c)

advance_ret_keeping_address(c) ==
    LET return_address == pop(c)
    IN IF return_address.err # "none" THEN return_address
       ELSE set_register(c, "ip", return_address.val)

advance_ret(c) ==
    LET return_address == pop(c)
    IN IF return_address.err # "none" THEN return_address
       ELSE set_register(return_address.cpu, "ip", return_address.val)

advance_only_jumps(c, inst) ==
    CASE inst.name \in JumpNames -> advance_jump(c, inst)
      [] inst.name = "RET" -> advance_ret(c)
      [] OTHER -> Ok(c, 0)

advance(c, inst) ==
    CASE inst.name \in JumpNames -> advance_jump(c, inst)
      [] inst.name = "RET" -> advance_ret(c)
      [] OTHER -> advance_default(c)

(***************************************************************************)
(* instructions.py: Instruction.__call__, and its override in              *)
(* UnaryOperation and BinaryOperation, which stores the value after the    *)
(* advance.  An entry that is not an instruction (a Label, a Comment)      *)
(* cannot be called: step's call of it raises TypeError.                   *)
(***************************************************************************)
call_rolling_back(c, inst, inp) ==
    LET value == calc(c, inst, inp)
    IN IF inst.k # "instr" THEN Fail(c, "object is not callable")
       ELSE IF value.err # "none" THEN Fail(c, value.err)
       ELSE LET adv == advance(value.cpu, inst)
            IN IF adv.err # "none" THEN Fail(c, adv.err)
               ELSE IF inst.name \in BinaryNames \cup UnaryNames
                    THEN LET w == setitem(adv.cpu, inst.out, value.val)
                         IN IF w.err # "none" THEN Fail(c, w.err) ELSE Ok(w.cpu, value.val)
                    ELSE Ok(adv.cpu, value.val)

call_advancing_first(c, inst, inp) ==
    LET adv == advance(c, inst)
    IN IF inst.k # "instr" THEN Fail(c, "object is not callable")
       ELSE IF adv.err # "none" THEN adv
       ELSE LET value == calc(adv.cpu, inst, inp)
            IN IF value.err # "none" THEN value
               ELSE IF inst.name \in BinaryNames \cup UnaryNames
                    THEN LET w == setitem(value.cpu, inst.out, value.val)
                         IN IF w.err # "none" THEN w ELSE Ok(w.cpu, value.val)
                    ELSE Ok(value.cpu, value.val)

call(c, inst, inp) ==
    LET value == calc(c, inst, inp)
    IN IF inst.k # "instr" THEN Fail(c, "object is not callable")
       ELSE IF value.err # "none" THEN value
       ELSE LET adv == advance(value.cpu, inst)
            IN IF adv.err # "none" THEN adv
               ELSE IF inst.name \in BinaryNames \cup UnaryNames
                    THEN LET w == setitem(adv.cpu, inst.out, value.val)
                         IN IF w.err # "none" THEN w ELSE Ok(w.cpu, value.val)
                    ELSE Ok(adv.cpu, value.val)

(***************************************************************************)
(* cpu.py: load and step.  The instruction list is 0-indexed in the source *)
(* and 1-indexed here: instructions[ip + 1] is the instruction at ip.      *)
(* step keeps what the instruction returned in a local (out here), which   *)
(* it prints under debug only; it has no return statement: it returns None. *)
(***************************************************************************)
load_resetting_stack(c, insts) ==
    LET r == set_register(c, "ip", 0)
    IN Ok([r.cpu EXCEPT !.instructions = insts, !.stack = <<>>], 0)

load(c, insts) ==
    LET r == set_register(c, "ip", 0)
    IN Ok([r.cpu EXCEPT !.instructions = insts], 0)

(* step has no return statement: its caller gets the exception the        *)
(* instruction raised, or None.                                            *)
returned(out) == IF out.err # "none" THEN out ELSE Ok(out.cpu, None)

returned_output(out) == IF out.err # "none" THEN out ELSE Ok(out.cpu, PyInt(out.val))

step_with_negative_index(c, inp) ==
    IF get_register(c, "ip").val >= Len(c.instructions)
    THEN Fail(c, "EndOfProgram")
    ELSE IF get_register(c, "ip").val < 0 - Len(c.instructions)
    THEN Fail(c, "list index out of range")
    ELSE LET i == IF get_register(c, "ip").val < 0
                  THEN Len(c.instructions) + get_register(c, "ip").val + 1
                  ELSE get_register(c, "ip").val + 1
         IN returned(call(c, c.instructions[i], inp))

step_returning_output(c, inp) ==
    IF get_register(c, "ip").val >= Len(c.instructions)
    THEN Fail(c, "EndOfProgram")
    ELSE IF get_register(c, "ip").val < 0
    THEN Fail(c, "EndOfProgram")
    ELSE returned_output(call(c, c.instructions[get_register(c, "ip").val + 1], inp))

step(c, inp) ==
    IF get_register(c, "ip").val >= Len(c.instructions)
    THEN Fail(c, "EndOfProgram")
    ELSE IF get_register(c, "ip").val < 0
    THEN Fail(c, "EndOfProgram")
    ELSE returned(call(c, c.instructions[get_register(c, "ip").val + 1], inp))

(***************************************************************************)
(* cpu.py: run as a function of the CPU and the program: load, then step   *)
(* until step raises; EndOfProgram ends the loop normally.  fuel bounds    *)
(* the number of steps followed; done tells whether the loop ended.        *)
(***************************************************************************)
RECURSIVE run_loop_raising_end(_, _)
run_loop_raising_end(c, fuel) ==
    LET r == step(c, "1")
    IN IF r.err # "none" THEN [cpu |-> r.cpu, err |-> r.err, done |-> TRUE]
       ELSE IF fuel = 0 THEN [cpu |-> r.cpu, err |-> "none", done |-> FALSE]
       ELSE run_loop_raising_end(r.cpu, fuel - 1)

RECURSIVE run_loop(_, _)
run_loop(c, fuel) ==
    LET r == step(c, "1")
    IN IF r.err = "EndOfProgram" THEN [cpu |-> c, err |-> "none", done |-> TRUE]
       ELSE IF r.err # "none" THEN [cpu |-> r.cpu, err |-> r.err, done |-> TRUE]
       ELSE IF fuel = 0 THEN [cpu |-> r.cpu, err |-> "none", done |-> FALSE]
       ELSE run_loop(r.cpu, fuel - 1)

run(c, instructions, fuel) == run_loop(load(c, instructions).cpu, fuel)

(***************************************************************************)
(* assembler.py: assemble.  An entry of new_program is an object of its    *)
(* own (deepcopy), so pass 2 writes to the copy; alias names the entry of  *)
(* the input list an object is shared with (0: none), and a write to a     *)
(* shared object shows in the input list too.                              *)
(***************************************************************************)
deepcopy_shallow(inst, i) == [obj |-> inst, alias |-> i]

deepcopy(inst, i) == [obj |-> inst, alias |-> 0]

label_used_unchecked(used_labels, name) == FALSE

label_used(used_labels, name) == name \in used_labels

record_label_off_by_one(label_to_ip, name, ip) ==
    [n \in DOMAIN label_to_ip \cup {name} |->
        IF n = name THEN ip + 1 ELSE label_to_ip[n]]

record_label(label_to_ip, name, ip) ==
    [n \in DOMAIN label_to_ip \cup {name} |->
        IF n = name THEN ip ELSE label_to_ip[n]]

RECURSIVE pass1(_, _, _, _, _, _)
pass1(prog, i, ip, used_labels, label_to_ip, new_program) ==
    IF i > Len(prog)
    THEN [err |-> "none", label |-> "", label_to_ip |-> label_to_ip,
          new_program |-> new_program]
    ELSE LET inst == prog[i]
         IN CASE inst.k = "label" ->
                    IF label_used(used_labels, inst.name)
                    THEN [err |-> "label used more than once", label |-> inst.name,
                          label_to_ip |-> label_to_ip, new_program |-> new_program]
                    ELSE pass1(prog, i + 1, ip, used_labels \cup {inst.name},
                               record_label(label_to_ip, inst.name, ip),
                               new_program)
              [] inst.k = "comment" ->
                    pass1(prog, i + 1, ip, used_labels, label_to_ip, new_program)
              [] OTHER ->
                    pass1(prog, i + 1, ip + 1, used_labels, label_to_ip,
                          Append(new_program, deepcopy(inst, i)))

resolved_dest_always_absolute(inst, target_ip, ip) == Literal(target_ip)

resolved_dest(inst, target_ip, ip) ==
    IF inst.name \in RelativeJumpNames
    THEN Literal(target_ip - ip)
    ELSE Literal(target_ip)

SetDest_forgotten(entry, d) == entry

SetDest(entry, d) == [entry EXCEPT !.obj.dest = d]

lookup_with_default(label_to_ip, name) ==
    IF name \in DOMAIN label_to_ip
    THEN [found |-> TRUE, target_ip |-> label_to_ip[name]]
    ELSE [found |-> TRUE, target_ip |-> 0]

lookup(label_to_ip, name) ==
    IF name \in DOMAIN label_to_ip
    THEN [found |-> TRUE, target_ip |-> label_to_ip[name]]
    ELSE [found |-> FALSE, target_ip |-> 0]

enumerate_reversed(new_program) ==
    [j \in 1..Len(new_program) |->
        [ip |-> Len(new_program) - j, inst |-> new_program[Len(new_program) - j + 1]]]

enumerate(new_program) ==
    [j \in 1..Len(new_program) |-> [ip |-> j - 1, inst |-> new_program[j]]]

WriteThrough(input, entry, d) ==
    IF entry.alias = 0 THEN input
    ELSE [input EXCEPT ![entry.alias].dest = d]

RECURSIVE pass2(_, _, _, _)
pass2(new_program, i, label_to_ip, input) ==
    IF i > Len(new_program)
    THEN [err |-> "none", label |-> "", new_program |-> new_program, input |-> input]
    ELSE LET entry == enumerate(new_program)[i]
             inst == entry.inst.obj
             ip == entry.ip
         IN IF "dest" \in DOMAIN inst /\ inst.dest.k = "label"
            THEN LET target == lookup(label_to_ip, inst.dest.name)
                 IN IF ~target.found
                    THEN [err |-> "undefined label", label |-> inst.dest.name,
                          new_program |-> new_program, input |-> input]
                    ELSE LET d == resolved_dest(inst, target.target_ip, ip)
                         IN pass2([new_program EXCEPT ![ip + 1] = SetDest(@, d)], i + 1,
                                  label_to_ip, WriteThrough(input, entry.inst, d))
            ELSE pass2(new_program, i + 1, label_to_ip, input)

(* [err, label, out, input]: the exception and the label it names, the     *)
(* returned list (empty when it raised) and the input list after the call. *)
assemble(prog) ==
    LET p1 == pass1(prog, 1, 0, {}, <<>>, <<>>)
    IN IF p1.err # "none"
       THEN [err |-> p1.err, label |-> p1.label, out |-> <<>>, input |-> prog,
             label_to_ip |-> p1.label_to_ip]
       ELSE LET p2 == pass2(p1.new_program, 1, p1.label_to_ip, prog)
            IN [err |-> p2.err, label |-> p2.label,
                out |-> IF p2.err = "none"
                        THEN [j \in 1..Len(p2.new_program) |-> p2.new_program[j].obj]
                        ELSE <<>>,
                input |-> p2.input,
                label_to_ip |-> p1.label_to_ip]

(***************************************************************************)
(* The CPU under test, the programs loaded into it and the inputs of the   *)
(* calls made on it.                                                       *)
(***************************************************************************)
Registers == {"a"}

Programs ==
    << <<Jump("JMP", Literal(3)), Jump("RJMP", Literal(0 - 2)), Jump("JMP", Ra)>>,
       <<Jump("JMP", Literal(0 - 1)), Jump("RJMP", M0), Jump("RJMP", Ra)>>,
       <<BinaryJump("JEQ", M1, Ra, M0), BinaryJump("RJEQ", Ra, Ra, Literal(0)),
         BinaryJump("JNE", Literal(0 - 1), Ra, M0)>>,
       <<BinaryJump("RJNE", M0, Ra, Literal(1)), BinaryJump("JGT", Literal(2), Ra, M0),
         BinaryJump("RJGT", Literal(0 - 1), Ra, Literal(0))>>,
       <<BinaryJump("JGE", Ra, Ra, M1), BinaryJump("RJGE", Literal(2), M0, Ra),
         UnaryJump("JIF", M0, Ra)>>,
       <<UnaryJump("RJIF", M1, M0), I0("NOOP"), UnaryJump("RJIF", Literal(0 - 1), Ra)>>,
       <<Jump("CALL", Literal(1)), Jump("RCALL", Ra), I0("RET")>>,
       <<Jump("CALL", M0), Jump("RCALL", Literal(0 - 1)), I0("RET")>>,
       <<IA("PUSH", Ra), IOut("POP", M0), IOut("SEMP", Ra)>>,
       <<IA("PUSH", M1), IOut("POP", None), IOut("POP", Rip)>>,
       <<BinaryOperation("ADD", Ra, M0, Ra), UnaryOperation("CP", M0, Ra),
         UnaryOperation("NOT", Ra, M1)>>,
       <<BinaryOperation("SUB", M1, Literal(1), M1), IOut("NIN", Ra),
         BinaryOperation("AND", Ra, M0, Rip)>>,
       <<UnaryOperation("CP", Literal(1), Rip), IOut("SEMP", Rip)>> >>

AllPrograms == 1..Len(Programs)
UsesNames(k, N) == \E j \in 1..Len(Programs[k]) : Programs[k][j].name \in N
StackNames == CallNames \cup {"RET", "PUSH", "POP", "SEMP"}
JumpPrograms == {k \in AllPrograms : UsesNames(k, JumpNames \ CallNames)}
StackPrograms == {k \in AllPrograms : UsesNames(k, CallNames \cup {"RET", "PUSH"})}
OpPrograms == {k \in AllPrograms : ~UsesNames(k, JumpNames \cup {"RET"})}

InputLines == {"1", "-1", "x"}

(* The bounds of the explored state space. *)
InBounds(c) ==
    /\ \A r \in DOMAIN c.registers :
          IF r = "ip" THEN c.registers[r] \in IpVal ELSE c.registers[r] \in Val
    /\ \A i \in DOMAIN c.memory : c.memory[i] \in Val
    /\ \A i \in 1..Len(c.stack) : c.stack[i] \in StackVal

(* What the caller sees of a call: the exception, and for step and pop    *)
(* the returned value (None for a step that returned, 0 when it raised).   *)
Outcome(op, r) == [op |-> op, err |-> r.err,
                   val |-> IF op \in {"step", "pop"} THEN r.val ELSE 0]

NotAssembled == [err |-> "unset", label |-> "", out |-> <<>>, label_to_ip |-> <<>>]

NoPending == [base |-> <<>>, ops |-> <<>>, kinds |-> "none", undone |-> 0]

NoInput == [lines |-> <<>>, pos |-> 0]

NoOthers == stdin = NoInput /\ trace = <<>> /\ cpu2 = None

InitCommon ==
    /\ running = FALSE
    /\ result = [op |-> "init", err |-> "none", val |-> 0]
    /\ output = <<>>
    /\ program = <<>>
    /\ assembled = NotAssembled
    /\ pending = NoPending
    /\ NoOthers

Init ==
    /\ cpu = DT31(Registers, MemSize, StackSize, FALSE)
    /\ InitCommon

CurrentInstruction(c) == c.instructions[c.registers["ip"] + 1]

InRange(c) == 0 <= c.registers["ip"] /\ c.registers["ip"] < Len(c.instructions)

(***************************************************************************)
(* History of the stack: base is the stack when the history started, ops   *)
(* the calls (with their call site) and pushes (with the value pushed)     *)
(* made since and not yet undone, kinds tells whether the history holds    *)
(* only calls and returns ("call"), only pushes and pops ("push") or both  *)
(* ("mixed"), undone counts the returns and pops that undid one of ops.    *)
(* Any other change of the stack starts a new history.                     *)
(***************************************************************************)
Executed == /\ result'.op = "step"
            /\ result'.err = "none"
            /\ InRange(cpu)

ExecutedName == CurrentInstruction(cpu).name

JoinKinds(k1, k2) == IF k1 = "none" \/ k1 = k2 THEN k2 ELSE "mixed"

Did(o) == [pending EXCEPT !.ops = Append(@, o),
                          !.kinds = JoinKinds(@, o.kind)]

Undid(k) == [pending EXCEPT !.ops = SubSeq(@, 1, Len(@) - 1),
                            !.kinds = JoinKinds(@, k),
                            !.undone = IF @ < StackSize THEN @ + 1 ELSE @]

TrackPending(arg) ==
    pending' =
       IF result'.op = "push" /\ result'.err = "none"
       THEN Did([kind |-> "push", arg |-> arg])
       ELSE IF Executed /\ ExecutedName = "PUSH"
       THEN Did([kind |-> "push", arg |-> resolve(cpu, CurrentInstruction(cpu).a).val])
       ELSE IF Executed /\ ExecutedName \in CallNames
       THEN Did([kind |-> "call", arg |-> cpu.registers["ip"]])
       ELSE IF pending.ops # <<>> /\ Executed /\ ExecutedName = "RET"
       THEN Undid("call")
       ELSE IF /\ pending.ops # <<>>
               /\ \/ Executed /\ ExecutedName = "POP"
                  \/ result'.op = "pop" /\ result'.err = "none"
       THEN Undid("push")
       ELSE IF cpu'.stack = cpu.stack
       THEN pending
       ELSE [base |-> cpu'.stack, ops |-> <<>>, kinds |-> "none", undone |-> 0]

(***************************************************************************)
(* The calls a client makes on an idle CPU.                                *)
(***************************************************************************)
Api(op, r, arg) ==
    /\ ~running
    /\ InBounds(r.cpu)
    /\ cpu' = r.cpu
    /\ result' = Outcome(op, r)
    /\ TrackPending(arg)
    /\ UNCHANGED <<others, running, output, program, assembled>>

SetIp == \E v \in IpVal : Api("set_register", set_register(cpu, "ip", v), v)

SetRegister == \E r \in Registers, v \in Val :
                  Api("set_register", set_register(cpu, r, v), v)

SetMemory == \E i \in (0 - 1)..MemSize, v \in Val :
                Api("set_memory", set_memory(cpu, i, v), v)

Push == \E v \in Val : Api("push", push(cpu, v), v)

Pop == Api("pop", pop(cpu), 0)

Load(S) == \E k \in S : Api("load", load(cpu, Programs[k]), k)

(***************************************************************************)
(* cpu.py: run is load followed by the loop around step; the loop ends     *)
(* when step raises: EndOfProgram is caught, anything else propagates.     *)
(***************************************************************************)
Run(S) ==
    /\ ~running
    /\ \E k \in S :
          /\ cpu' = load(cpu, Programs[k]).cpu
          /\ running' = TRUE
          /\ result' = [op |-> "run", err |-> "running", val |-> 0]
    /\ TrackPending(0)
    /\ UNCHANGED <<others, output, program, assembled>>

RunOutcomePropagating(r) == [op |-> "run", err |-> r.err, val |-> 0]

RunOutcome(r) ==
    [op |-> "run", err |-> IF r.err = "EndOfProgram" THEN "none" ELSE r.err, val |-> 0]

Printed(c) == IF InRange(c) THEN printed(c, CurrentInstruction(c)) ELSE <<>>

Step ==
    \E inp \in InputLines :
       LET r == step(cpu, inp)
       IN /\ InBounds(r.cpu)
          /\ Len(output \o Printed(cpu)) <= MaxOut
          /\ cpu' = r.cpu
          /\ output' = output \o Printed(cpu)
          /\ IF running
             THEN IF r.err = "none"
                  THEN running' = TRUE /\ result' = Outcome("step", r)
                  ELSE running' = FALSE /\ result' = RunOutcome(r)
             ELSE running' = FALSE /\ result' = Outcome("step", r)
          /\ TrackPending(0)
          /\ UNCHANGED <<others, program, assembled>>

(***************************************************************************)
(* Spec: a client that sets registers and memory and loads, runs and steps *)
(* the jump programs.                                                      *)
(***************************************************************************)
LoadJump == Load(JumpPrograms)
RunJump == Run(JumpPrograms)

Next ==
    \/ SetIp
    \/ SetRegister
    \/ SetMemory
    \/ LoadJump
    \/ RunJump
    \/ Step

Spec == Init /\ [][Next]_vars

(***************************************************************************)
(* SpecStack: a client that pushes and pops and loads, runs and steps the  *)
(* programs that call, return, push and pop.                               *)
(***************************************************************************)
LoadStack == Load(StackPrograms)
RunStack == Run(StackPrograms)

NextStack ==
    \/ SetIp
    \/ Push
    \/ Pop
    \/ LoadStack
    \/ RunStack
    \/ Step

SpecStack == Init /\ [][NextStack]_vars

(***************************************************************************)
(* SpecOps: a client that sets registers and loads, runs and steps the     *)
(* programs without jump, call or return.                                  *)
(***************************************************************************)
LoadOps == Load(OpPrograms)
RunOps == Run(OpPrograms)

NextOps ==
    \/ SetRegister
    \/ LoadOps
    \/ RunOps
    \/ Step

SpecOps == Init /\ [][NextOps]_vars

(***************************************************************************)
(* SpecAsm: assemble applied to every program of at most MaxAsmLen entries *)
(* over the entries below: two labels, a comment, an instruction without   *)
(* destination, every jump and call with a Label destination, and a jump   *)
(* whose destination is already a Literal.                                 *)
(***************************************************************************)
LabelJump(n, l) ==
    CASE n \in {"JMP", "RJMP", "CALL", "RCALL"} -> Jump(n, Label(l))
      [] n \in {"JIF", "RJIF"} -> UnaryJump(n, Label(l), Ra)
      [] OTHER -> BinaryJump(n, Label(l), Ra, Literal(0))

AsmEntries ==
    {Label("x"), Label("y"), Comment, I0("NOOP"), Jump("JMP", Literal(1))}
    \cup {LabelJump(n, "x") : n \in JumpNames}
    \cup {LabelJump(n, "y") : n \in {"RJMP", "CALL"}}
    \cup {UnaryJump("JIF", Literal(0), Label("x")),
          Jump("JMP", MemoryReference(Label("y")))}

AsmInputs == UNION {[1..n -> AsmEntries] : n \in 0..MaxAsmLen}

InitAsm ==
    /\ cpu = DT31(Registers, MemSize, StackSize, FALSE)
    /\ running = FALSE
    /\ result = [op |-> "init", err |-> "none", val |-> 0]
    /\ output = <<>>
    /\ program \in AsmInputs
    /\ assembled = NotAssembled
    /\ pending = NoPending
    /\ NoOthers

Assemble ==
    /\ assembled = NotAssembled
    /\ LET r == assemble(program)
       IN /\ assembled' = [err |-> r.err, label |-> r.label, out |-> r.out,
                           label_to_ip |-> r.label_to_ip]
          /\ program' = r.input
    /\ UNCHANGED <<others, cpu, running, result, output, pending>>

NextAsm == Assemble

SpecAsm == InitAsm /\ [][NextAsm]_vars

(***************************************************************************)
(* Vocabulary of the properties.                                           *)
(***************************************************************************)
IsInstruction(e) == e.k = "instr"
InstructionsOf(prog) == SelectSeq(prog, IsInstruction)
InstructionsBefore(prog, i) == Cardinality({j \in 1..(i - 1) : prog[j].k = "instr"})
LabelNames(prog) == {prog[i].name : i \in {j \in 1..Len(prog) : prog[j].k = "label"}}
DefinitionsOf(prog, n) == {i \in 1..Len(prog) : prog[i] = Label(n)}
HasLabelDest(e) == e.k = "instr" /\ "dest" \in DOMAIN e /\ e.dest.k = "label"
ReferencedLabels(prog) == {prog[i].dest.name : i \in {j \in 1..Len(prog) : HasLabelDest(prog[j])}}
DistinctAndDefined(prog) ==
    /\ \A n \in LabelNames(prog) : Cardinality(DefinitionsOf(prog, n)) = 1
    /\ ReferencedLabels(prog) \subseteq LabelNames(prog)
PositionOf(prog, n) == InstructionsBefore(prog, CHOOSE i \in DefinitionsOf(prog, n) : TRUE)
AbsoluteNames == {"JMP", "JEQ", "JNE", "JGT", "JGE", "JIF", "CALL"}
RelativeNames == {"RJMP", "RJEQ", "RJNE", "RJGT", "RJGE", "RJIF", "RCALL"}
Assembled == assembled.err # "unset"

(***************************************************************************)
(* C1: for a program whose labels are all distinct and defined, assemble   *)
(* succeeds and every Label destination becomes a Literal: the position of *)
(* the label for an absolute jump or call, the position of the label minus *)
(* the instruction's own index in the output for a relative one.           *)
(***************************************************************************)
C1_LabelDestinationsResolved ==
    (Assembled /\ DistinctAndDefined(program)) =>
       /\ assembled.err = "none"
       /\ \A j \in 1..Len(InstructionsOf(program)) :
             LET inst == InstructionsOf(program)[j]
             IN HasLabelDest(inst) =>
                   /\ inst.name \in AbsoluteNames =>
                         assembled.out[j].dest = Literal(PositionOf(program, inst.dest.name))
                   /\ inst.name \in RelativeNames =>
                         assembled.out[j].dest =
                            Literal(PositionOf(program, inst.dest.name) - (j - 1))
                   /\ inst.name \in AbsoluteNames \cup RelativeNames

(* An absolute and a relative reference to one label resolved to different literals. *)
C1_Witness ==
    /\ Assembled /\ DistinctAndDefined(program) /\ assembled.err = "none"
    /\ \E j, k \in 1..Len(assembled.out) :
          /\ HasLabelDest(InstructionsOf(program)[j])
          /\ HasLabelDest(InstructionsOf(program)[k])
          /\ InstructionsOf(program)[j].dest = InstructionsOf(program)[k].dest
          /\ assembled.out[j].name \in AbsoluteNames
          /\ assembled.out[k].name \in RelativeNames
          /\ assembled.out[j].dest.value > 0
          /\ assembled.out[k].dest.value # assembled.out[j].dest.value

(***************************************************************************)
(* C2: pass 1 maps each label to the number of instruction entries before  *)
(* it (labels and comments take no slot, so consecutive labels share a     *)
(* position), and the output is the input's instructions in input order,   *)
(* one per non-label, non-comment entry.                                   *)
(***************************************************************************)
StripDest(e) == IF "dest" \in DOMAIN e THEN [e EXCEPT !.dest = None] ELSE e

C2_LabelPositionsAndOutputOrder ==
    (Assembled /\ assembled.err = "none") =>
       /\ DOMAIN assembled.label_to_ip = LabelNames(program)
       /\ \A i \in 1..Len(program) :
             program[i].k = "label" =>
                assembled.label_to_ip[program[i].name] = InstructionsBefore(program, i)
       /\ \A i \in 1..(Len(program) - 1) :
             (program[i].k = "label" /\ program[i + 1].k = "label") =>
                assembled.label_to_ip[program[i].name]
                   = assembled.label_to_ip[program[i + 1].name]
       /\ Len(assembled.out)
             = Cardinality({i \in 1..Len(program) : program[i].k \notin {"label", "comment"}})
       /\ \A j \in 1..Len(assembled.out) :
             StripDest(assembled.out[j]) = StripDest(InstructionsOf(program)[j])

(* Two consecutive labels after the only instruction share position 1. *)
C2_Witness ==
    /\ Assembled /\ assembled.err = "none"
    /\ Len(assembled.out) = 1
    /\ \E i \in 2..(Len(program) - 1) :
          /\ program[i].k = "label" /\ program[i + 1].k = "label"
          /\ program[i].name # program[i + 1].name
          /\ assembled.label_to_ip[program[i].name] = 1
          /\ assembled.label_to_ip[program[i + 1].name] = 1

(***************************************************************************)
(* Vocabulary of the properties about execution.  A transition is a step   *)
(* when the client called step or when run's loop did; Raised is what step *)
(* raised, seen by the client or by run's handler.                         *)
(***************************************************************************)
StepTaken == result'.op = "step" \/ (running /\ result'.op = "run")

Raised == IF result'.op = "step" THEN result'.err
          ELSE IF result'.err = "none" THEN "EndOfProgram" ELSE result'.err

Ip == cpu.registers["ip"]
Value(op) == resolve(cpu, op).val
OtherRegistersUnchanged ==
    /\ DOMAIN cpu'.registers = DOMAIN cpu.registers
    /\ \A r \in DOMAIN cpu.registers \ {"ip"} : cpu'.registers[r] = cpu.registers[r]
Last(q) == q[Len(q)]

(***************************************************************************)
(* C3: a jump executed at ip = p evaluates its condition; when it holds ip *)
(* becomes the resolved destination d (absolute) or p + d (relative), when *)
(* it does not ip becomes p + 1; no other register, no memory cell and no  *)
(* stack entry changes.                                                    *)
(***************************************************************************)
ConditionHolds(inst) ==
    CASE inst.name \in {"JMP", "RJMP"} -> TRUE
      [] inst.name \in {"JEQ", "RJEQ"} -> Value(inst.a) = Value(inst.b)
      [] inst.name \in {"JNE", "RJNE"} -> Value(inst.a) # Value(inst.b)
      [] inst.name \in {"JGT", "RJGT"} -> Value(inst.a) > Value(inst.b)
      [] inst.name \in {"JGE", "RJGE"} -> Value(inst.a) >= Value(inst.b)
      [] inst.name \in {"JIF", "RJIF"} -> Value(inst.a) # 0

C3_JumpSetsIp ==
    [][(Executed /\ ExecutedName \in (AbsoluteNames \cup RelativeNames) \ {"CALL", "RCALL"}) =>
          LET inst == CurrentInstruction(cpu)
          IN /\ cpu'.registers["ip"] =
                   IF ConditionHolds(inst)
                   THEN IF inst.name \in AbsoluteNames
                        THEN Value(inst.dest)
                        ELSE Ip + Value(inst.dest)
                   ELSE Ip + 1
             /\ OtherRegistersUnchanged
             /\ cpu'.memory = cpu.memory
             /\ cpu'.stack = cpu.stack]_vars

(* RJNE(M[0], a, 1) at index 0 was taken with a negative offset read from memory. *)
C3_Witness ==
    /\ result.op = "step" /\ result.err = "none"
    /\ cpu.instructions = Programs[4]
    /\ cpu.registers["ip"] = 0 - 1
    /\ cpu.memory[0] = 0 - 1
    /\ cpu.registers["a"] # 1

(***************************************************************************)
(* C4 as stated: after the successful execution of an instruction that is  *)
(* not a jump, call or return, ip is its previous value plus 1, whatever   *)
(* the operands and the output reference.                                  *)
(***************************************************************************)
NonJumpExecuted == Executed /\ ExecutedName \notin AbsoluteNames \cup RelativeNames \cup {"RET"}

C4_Original ==
    [][NonJumpExecuted => cpu'.registers["ip"] = Ip + 1]_vars

(***************************************************************************)
(* C4 amended: the same, for every output reference other than register    *)
(* ip itself (given or defaulted from the first operand).                  *)
(***************************************************************************)
WritesIp(inst) == "out" \in DOMAIN inst /\ inst.out = RegisterReference("ip")

C4_NonJumpAdvancesByOne ==
    [][(NonJumpExecuted /\ ~WritesIp(CurrentInstruction(cpu))) =>
          cpu'.registers["ip"] = Ip + 1]_vars

(* NOT(a, M[1]) at index 2 was executed and left ip at 3. *)
C4_Witness ==
    /\ result.op = "step" /\ result.err = "none"
    /\ cpu.instructions = Programs[11]
    /\ cpu.registers["ip"] = 3

(***************************************************************************)
(* C5: CALL and RCALL executed at ip = p push p + 1 and set ip to the      *)
(* resolved destination d (CALL) or to p + d (RCALL); no other register    *)
(* and no memory cell changes.                                             *)
(***************************************************************************)
C5_CallPushesReturnAddress ==
    [][(Executed /\ ExecutedName \in {"CALL", "RCALL"}) =>
          LET inst == CurrentInstruction(cpu)
          IN /\ cpu'.stack = Append(cpu.stack, Ip + 1)
             /\ cpu'.registers["ip"] =
                   IF inst.name = "CALL" THEN Value(inst.dest) ELSE Ip + Value(inst.dest)
             /\ OtherRegistersUnchanged
             /\ cpu'.memory = cpu.memory]_vars

(* RCALL(-1) at index 1 pushed 2 and went back to index 0. *)
C5_Witness ==
    /\ result.op = "step" /\ result.err = "none"
    /\ cpu.instructions = Programs[8]
    /\ cpu.registers["ip"] = 0
    /\ pending.ops # <<>>
    /\ Last(pending.ops) = [kind |-> "call", arg |-> 1]
    /\ Last(cpu.stack) = 2

(***************************************************************************)
(* C6: after nested calls from sites p1..pn with no other stack operation  *)
(* in between, the RETs set ip to pn + 1, ..., p1 + 1 in that order, and   *)
(* the last of them leaves the stack as it was before the first call.      *)
(***************************************************************************)
C6_ReturnsUnwindCalls ==
    [][(Executed /\ ExecutedName = "RET" /\ pending.kinds = "call" /\ pending.ops # <<>>) =>
          /\ cpu'.registers["ip"] = Last(pending.ops).arg + 1
          /\ Len(pending.ops) = 1 => cpu'.stack = pending.base]_vars

(* CALL at 0 and RCALL at 1, then two RETs: back at 1 with the stack as before. *)
C6_Witness ==
    /\ result.op = "step" /\ result.err = "none"
    /\ cpu.instructions = Programs[7]
    /\ pending.kinds = "call" /\ pending.undone = 2 /\ pending.ops = <<>>
    /\ cpu.registers["ip"] = 1
    /\ cpu.stack = pending.base

(***************************************************************************)
(* C7: run loads the program and steps it; it goes on while ip is in range *)
(* and no instruction fails, returns normally as soon as ip is out of      *)
(* range, leaving the CPU as the last instruction left it, and never lets  *)
(* EndOfProgram reach its caller.                                          *)
(***************************************************************************)
C7_RunStopsAtEndOfProgram ==
    [][/\ (~running /\ running') =>
             /\ cpu'.registers["ip"] = 0
             /\ \E k \in AllPrograms : cpu'.instructions = Programs[k]
       /\ (running /\ InRange(cpu)) =>
             \/ running' /\ result'.op = "step" /\ result'.err = "none"
             \/ ~running' /\ result'.op = "run" /\ result'.err \notin {"none", "EndOfProgram"}
       /\ (running /\ ~InRange(cpu)) =>
             /\ ~running'
             /\ result' = [op |-> "run", err |-> "none", val |-> 0]
             /\ cpu' = cpu
       /\ result'.op = "run" => result'.err # "EndOfProgram"
       /\ (result'.op = "run" /\ result'.err = "none") =>
             cpu'.registers["ip"] < 0 \/ cpu'.registers["ip"] >= Len(cpu'.instructions)]_vars

(* run returned normally with ip = -1 after JMP(-1). *)
C7_Witness ==
    /\ result = [op |-> "run", err |-> "none", val |-> 0]
    /\ ~running
    /\ cpu.instructions = Programs[2]
    /\ cpu.registers["ip"] = 0 - 1

(***************************************************************************)
(* C8: step raises EndOfProgram exactly when ip < 0 or ip >= the number of *)
(* instructions, and then changes nothing; otherwise it executes the       *)
(* instruction at index ip.                                                *)
(***************************************************************************)
C8_StepEndOfProgram ==
    [][StepTaken =>
          /\ (Raised = "EndOfProgram") <=> (Ip < 0 \/ Ip >= Len(cpu.instructions))
          /\ (Ip < 0 \/ Ip >= Len(cpu.instructions)) => cpu' = cpu
          /\ (0 <= Ip /\ Ip < Len(cpu.instructions)) =>
                \E inp \in InputLines :
                   LET r == call(cpu, cpu.instructions[Ip + 1], inp)
                   IN cpu' = r.cpu /\ Raised = r.err]_vars

(* step raised EndOfProgram on a loaded program with a negative ip. *)
C8_Witness ==
    /\ result = [op |-> "step", err |-> "EndOfProgram", val |-> 0]
    /\ cpu.instructions # <<>>
    /\ cpu.registers["ip"] < 0

(***************************************************************************)
(* C9: the stack always holds between 0 and stack_size values; a push,     *)
(* direct or by PUSH, CALL or RCALL, on a full stack fails with stack      *)
(* overflow, a pop, direct or by POP or RET, on an empty stack fails with  *)
(* stack underflow, and a failed push or pop leaves the stack unchanged.   *)
(***************************************************************************)
Pushes == \/ result'.op = "push"
          \/ StepTaken /\ InRange(cpu) /\ ExecutedName \in {"PUSH", "CALL", "RCALL"}

Pops == \/ result'.op = "pop"
        \/ StepTaken /\ InRange(cpu) /\ ExecutedName \in {"POP", "RET"}

RaisedByCall == IF result'.op \in {"push", "pop"} THEN result'.err ELSE Raised

C9_StackBounded ==
    [][/\ 0 <= Len(cpu'.stack) /\ Len(cpu'.stack) <= cpu'.stack_size
       /\ cpu'.stack_size = StackSize
       /\ (Pushes /\ Len(cpu.stack) = cpu.stack_size) =>
             RaisedByCall = "stack overflow" /\ cpu'.stack = cpu.stack
       /\ (Pops /\ Len(cpu.stack) = 0) =>
             RaisedByCall = "stack underflow" /\ cpu'.stack = cpu.stack
       /\ RaisedByCall = "stack overflow" => (Pushes /\ Len(cpu.stack) = cpu.stack_size)
       /\ RaisedByCall = "stack underflow" => (Pops /\ Len(cpu.stack) = 0)]_vars

(* A CALL stepped on a full stack failed with stack overflow. *)
C9_Witness ==
    /\ result = [op |-> "step", err |-> "stack overflow", val |-> 0]
    /\ Len(cpu.stack) = StackSize
    /\ InRange(cpu)
    /\ CurrentInstruction(cpu).name \in {"CALL", "RCALL"}

(***************************************************************************)
(* C10: the stack is LIFO: after pushes of v1..vn, by cpu.push or PUSH,    *)
(* the pops, by cpu.pop or POP, return vn..v1, and the last of them leaves *)
(* the stack as it was before the pushes.                                  *)
(***************************************************************************)
C10_StackIsLifo ==
    [][(pending.kinds = "push" /\ pending.ops # <<>>) =>
          /\ (result'.op = "pop" /\ result'.err = "none") =>
                /\ result'.val = Last(pending.ops).arg
                /\ Len(pending.ops) = 1 => cpu'.stack = pending.base
          /\ (Executed /\ ExecutedName = "POP") =>
                /\ CurrentInstruction(cpu).out = MemoryReference(Literal(0)) =>
                      cpu'.memory[0] = Last(pending.ops).arg
                /\ CurrentInstruction(cpu).out = RegisterReference("ip") =>
                      cpu'.registers["ip"] = Last(pending.ops).arg + 1
                /\ Len(pending.ops) = 1 => cpu'.stack = pending.base]_vars

(* Two pushes of different values undone by two pops, the second by cpu.pop returning the first value. *)
C10_Witness ==
    /\ result.op = "pop" /\ result.err = "none"
    /\ pending.kinds = "push" /\ pending.undone = 2 /\ pending.ops = <<>>
    /\ cpu.stack = pending.base
    /\ result.val = 1

(***************************************************************************)
(* SpecMem: a client that reads and writes memory cells by index, on a CPU *)
(* constructed with or without wrap_memory.  The result keeps the index    *)
(* and the value of the call.                                              *)
(***************************************************************************)
MemIndex == (0 - MemSize - 1)..(2 * MemSize)

InitMem ==
    /\ \E wrap \in BOOLEAN : cpu = DT31(Registers, MemSize, StackSize, wrap)
    /\ InitCommon

MemoryCall(op, r, i, v) ==
    /\ ~running
    /\ cpu' = r.cpu
    /\ result' = [op |-> op, err |-> r.err, val |-> r.val, index |-> i, value |-> v]
    /\ UNCHANGED <<others, running, output, program, assembled, pending>>

GetMemory == \E i \in MemIndex : MemoryCall("get_memory", get_memory(cpu, i), i, 0)

SetMemoryAt == \E i \in MemIndex, v \in Val :
                  MemoryCall("set_memory", set_memory(cpu, i, v), i, v)

NextMem ==
    \/ GetMemory
    \/ SetMemoryAt

SpecMem == InitMem /\ [][NextMem]_vars

(***************************************************************************)
(* C11: without wrap_memory, get_memory(i) and set_memory(i, v) succeed    *)
(* exactly when 0 <= i < memory_size and otherwise fail with an            *)
(* out-of-bounds error, memory unchanged; with wrap_memory they always     *)
(* succeed and act on the cell i mod memory_size, a residue in             *)
(* 0..memory_size - 1 also for negative i.                                 *)
(***************************************************************************)
Residue(i, n) == CHOOSE r \in 0..(n - 1) : \E q \in (0 - 4)..4 : i = q * n + r

C11_MemoryBoundsAndWrap ==
    [][("index" \in DOMAIN result') =>
          LET i == result'.index
              n == cpu.memory_size
              inside == 0 <= i /\ i < n
              cell == IF cpu.wrap_memory THEN Residue(i, n) ELSE i
              acts == cpu.wrap_memory \/ inside
          IN /\ acts <=> result'.err = "none"
             /\ ~acts => result'.err = "memory has no index" /\ cpu'.memory = cpu.memory
             /\ acts => /\ cell \in 0..(n - 1)
                        /\ result'.op = "get_memory" =>
                              result'.val = cpu.memory[cell] /\ cpu'.memory = cpu.memory
                        /\ result'.op = "set_memory" =>
                              cpu'.memory = [cpu.memory EXCEPT ![cell] = result'.value]
             /\ DOMAIN cpu'.memory = 0..(n - 1)]_vars

(* With wrap_memory, set_memory(-1, 1) wrote the last cell, and only it. *)
C11_Witness ==
    /\ cpu.wrap_memory
    /\ result.op = "set_memory" /\ result.err = "none"
    /\ "index" \in DOMAIN result
    /\ result.index = 0 - 1 /\ result.value = 1
    /\ cpu.memory[cpu.memory_size - 1] = 1
    /\ cpu.memory[0] = 0

(***************************************************************************)
(* Vocabulary of the properties about assemble's input and errors.         *)
(***************************************************************************)
RECURSIVE ContainsLabel(_)
ContainsLabel(op) == op.k = "label" \/ (op.k = "mem" /\ ContainsLabel(op.address))

OperandFields(e) == {e[f] : f \in DOMAIN e \cap {"dest", "a", "b", "out"}}
HoldsLabel(e) == e.k = "instr" /\ \E op \in OperandFields(e) : ContainsLabel(op)
LabelFree(prog) == \A i \in 1..Len(prog) : prog[i].k # "label" /\ ~HoldsLabel(prog[i])
CommentFree(prog) == \A i \in 1..Len(prog) : prog[i].k # "comment"
Duplicated(prog) == {n \in LabelNames(prog) : Cardinality(DefinitionsOf(prog, n)) >= 2}
Undefined(prog) == ReferencedLabels(prog) \ LabelNames(prog)
Repeats(prog) == {i \in 1..Len(prog) :
                    prog[i].k = "label" /\ \E j \in 1..(i - 1) : prog[j] = prog[i]}
UndefinedReferences(prog) ==
    {j \in 1..Len(InstructionsOf(prog)) :
        /\ HasLabelDest(InstructionsOf(prog)[j])
        /\ InstructionsOf(prog)[j].dest.name \notin LabelNames(prog)}
Least(S) == CHOOSE i \in S : \A j \in S : i <= j

(***************************************************************************)
(* C12 as stated: assemble leaves every entry of its input as it was,      *)
(* whether it succeeds or fails, and for a label-free input the output has *)
(* the input's length and equals it entry by entry.                        *)
(***************************************************************************)
C12_Original ==
    [][/\ program' = program
       /\ LabelFree(program) =>
             /\ assembled'.err = "none"
             /\ Len(assembled'.out) = Len(program)
             /\ \A j \in 1..Len(program) : assembled'.out[j] = program[j]]_vars

(***************************************************************************)
(* C12 amended: assemble leaves every entry of its input as it was,        *)
(* whether it succeeds or fails, and for a label-free input the output     *)
(* equals, entry by entry, the input's entries that are not comments; it   *)
(* has the input's length when the input holds no comment.                 *)
(***************************************************************************)
C12_InputNotMutated ==
    [][/\ program' = program
       /\ LabelFree(program) =>
             /\ assembled'.err = "none"
             /\ assembled'.out = InstructionsOf(program)
             /\ CommentFree(program) => Len(assembled'.out) = Len(program)]_vars

(* A Label destination was resolved in the output and is still a Label in the input. *)
C12_Witness ==
    /\ Assembled /\ assembled.err = "none"
    /\ \E j \in 1..Len(assembled.out) :
          /\ HasLabelDest(InstructionsOf(program)[j])
          /\ assembled.out[j].dest.k = "lit"
          /\ assembled.out[j].dest.value # 0

(***************************************************************************)
(* C13 as stated: after a successful assemble no Label remains in any      *)
(* operand field (dest, a, b, out or a nested memory address) of an output *)
(* instruction, and no Label entry remains in the output.                  *)
(***************************************************************************)
C13_Original ==
    (Assembled /\ assembled.err = "none") =>
       \A j \in 1..Len(assembled.out) :
          assembled.out[j].k = "instr" /\ ~HoldsLabel(assembled.out[j])

(***************************************************************************)
(* C13 amended: after a successful assemble the dest field of no output    *)
(* instruction is a Label, and no Label entry remains in the output.       *)
(***************************************************************************)
C13_NoLabelDestinationRemains ==
    (Assembled /\ assembled.err = "none") =>
       \A j \in 1..Len(assembled.out) :
          /\ assembled.out[j].k = "instr"
          /\ "dest" \in DOMAIN assembled.out[j] => assembled.out[j].dest.k # "label"

(* An input with a Label entry and two Label destinations assembled into two instructions. *)
C13_Witness ==
    /\ Assembled /\ assembled.err = "none"
    /\ LabelNames(program) # {}
    /\ Len(assembled.out) = 2
    /\ \A j \in 1..2 : HasLabelDest(InstructionsOf(program)[j])

(***************************************************************************)
(* C14: when a label name is defined by two or more entries, assemble      *)
(* fails with the duplicate-label error, which names the label of the      *)
(* first repeated definition, and returns no instruction list.             *)
(***************************************************************************)
C14_DuplicateLabelFails ==
    (Assembled /\ Duplicated(program) # {}) =>
       /\ assembled.err = "label used more than once"
       /\ assembled.label \in Duplicated(program)
       /\ assembled.label = program[Least(Repeats(program))].name
       /\ assembled.out = <<>>

(* y is defined twice around a reference to the undefined x: the error is about y. *)
C14_Witness ==
    /\ Assembled
    /\ Duplicated(program) = {"y"}
    /\ Undefined(program) = {"x"}
    /\ assembled.err = "label used more than once"
    /\ assembled.label = "y"

(***************************************************************************)
(* C15 as stated: when an instruction references a label name that no      *)
(* entry defines, assemble fails with the undefined-label error naming     *)
(* that label.                                                             *)
(***************************************************************************)
C15_Original ==
    Assembled =>
       \A n \in Undefined(program) :
          assembled.err = "undefined label" /\ assembled.label = n

(***************************************************************************)
(* C15 amended: when no label name is defined twice and some instruction   *)
(* references a label name that no entry defines, assemble fails with the  *)
(* undefined-label error naming such a label, and returns no list.         *)
(***************************************************************************)
C15_UndefinedLabelFails ==
    (Assembled /\ Duplicated(program) = {} /\ Undefined(program) # {}) =>
       /\ assembled.err = "undefined label"
       /\ assembled.label \in Undefined(program)
       /\ assembled.out = <<>>

(* x is defined and referenced, y is referenced only: the error is about y. *)
C15_Witness ==
    /\ Assembled
    /\ LabelNames(program) = {"x"}
    /\ ReferencedLabels(program) = {"x", "y"}
    /\ assembled.err = "undefined label"
    /\ assembled.label = "y"

(***************************************************************************)
(* C16: when several instructions reference undefined labels, the          *)
(* undefined-label error names the label referenced by the first of them   *)
(* in the order of the output.                                             *)
(***************************************************************************)
C16_FirstUndefinedLabelNamed ==
    (Assembled /\ assembled.err = "undefined label") =>
       /\ UndefinedReferences(program) # {}
       /\ assembled.label =
             InstructionsOf(program)[Least(UndefinedReferences(program))].dest.name

(* Two undefined labels are referenced, y before x: the error is about y. *)
C16_Witness ==
    /\ Assembled
    /\ Undefined(program) = {"x", "y"}
    /\ Cardinality(UndefinedReferences(program)) >= 2
    /\ assembled.err = "undefined label"
    /\ assembled.label = "y"

(***************************************************************************)
(* SpecRun: a client that calls run on a symbolic program, one that may    *)
(* hold Label entries and Label destinations, on a fresh CPU.              *)
(***************************************************************************)
RunEntries ==
    {Label("x"), Comment, I0("NOOP"), I0("RET"),
     Jump("JMP", Label("x")), Jump("RJMP", Label("x")), Jump("CALL", Label("x")),
     UnaryJump("JIF", Label("x"), Ra), Jump("RJMP", Literal(2))}

RunInputs == UNION {[1..n -> RunEntries] : n \in 0..MaxAsmLen}

InitRun ==
    /\ cpu = DT31(Registers, MemSize, StackSize, FALSE)
    /\ running = FALSE
    /\ result = [op |-> "init", err |-> "none", val |-> 0]
    /\ output = <<>>
    /\ program \in RunInputs
    /\ assembled = NotAssembled
    /\ pending = NoPending
    /\ NoOthers

RunProgram ==
    /\ ~running
    /\ result.op = "init"
    /\ cpu' = load(cpu, program).cpu
    /\ running' = TRUE
    /\ result' = [op |-> "run", err |-> "running", val |-> 0]
    /\ TrackPending(0)
    /\ UNCHANGED <<others, output, program, assembled>>

NextRun ==
    \/ RunProgram
    \/ Step

SpecRun == InitRun /\ [][NextRun]_vars

(***************************************************************************)
(* C17: run applies assemble to the program it is given: when run of a     *)
(* symbolic program P, with Label entries and Label destinations, has      *)
(* ended, the registers (ip included), memory and stack are those that run *)
(* of assemble(P) leaves on an identically configured CPU, and run ended   *)
(* the same way.                                                           *)
(***************************************************************************)
RunOfAssembled ==
    run(DT31(Registers, MemSize, StackSize, FALSE), assemble(program).out, RunFuel)

C17_RunAppliesAssemble ==
    (/\ result.op = "run" /\ ~running
     /\ LabelNames(program) # {}
     /\ \E i \in 1..Len(program) : HasLabelDest(program[i])
     /\ assemble(program).err = "none"
     /\ RunOfAssembled.done) =>
       /\ result.err = RunOfAssembled.err
       /\ cpu.registers = RunOfAssembled.cpu.registers
       /\ cpu.memory = RunOfAssembled.cpu.memory
       /\ cpu.stack = RunOfAssembled.cpu.stack

(***************************************************************************)
(* SpecNew: a client that sets registers, constructs one instruction from  *)
(* its arguments, loads it when the constructor returned, and steps it.    *)
(* program holds the arguments of the constructor call.                    *)
(***************************************************************************)
NewOperationNames == {"ADD", "SUB", "LT", "EQ", "AND", "OR", "XOR", "NOT", "CP"}
DestArguments == {PyInt(0), Literal(1), Ra, M0, Label("x")}
FirstArguments == {PyInt(1), Ra, M0, Label("x")}
SecondArguments == {PyInt(0 - 1), Ra}
OutArguments == {None, Ra, M1, PyInt(0)}

New(args, r) ==
    /\ ~running
    /\ program = <<>>
    /\ program' = <<args>>
    /\ result' = [op |-> "new", err |-> r.err, val |-> 0]
    /\ cpu' = IF r.err = "none" THEN load(cpu, <<r.obj>>).cpu ELSE cpu
    /\ TrackPending(0)
    /\ UNCHANGED <<others, running, output, assembled>>

NewJump ==
    \E name \in JumpNames, dest \in DestArguments :
       CASE name \in UnconditionalNames ->
               New([name |-> name, dest |-> dest], Jump_init(name, dest))
         [] name \in {"JIF", "RJIF"} ->
               New([name |-> name, dest |-> dest, a |-> Ra],
                   UnaryJump_init(name, dest, Ra))
         [] OTHER ->
               New([name |-> name, dest |-> dest, a |-> Ra, b |-> PyInt(0)],
                   BinaryJump_init(name, dest, Ra, PyInt(0)))

NewOperation ==
    \E name \in NewOperationNames, a \in FirstArguments, out \in OutArguments :
       IF name \in UnaryNames
       THEN New([name |-> name, a |-> a, out |-> out],
                UnaryOperation_init(name, a, out))
       ELSE \E b \in SecondArguments :
               New([name |-> name, a |-> a, b |-> b, out |-> out],
                   BinaryOperation_init(name, a, b, out))

NextNew ==
    \/ SetRegister
    \/ NewJump
    \/ NewOperation
    \/ Step

SpecNew == Init /\ [][NextNew]_vars

(***************************************************************************)
(* C18: constructing a jump or call with a Label as its destination        *)
(* succeeds and stores that Label unchanged in dest.                       *)
(***************************************************************************)
C18_JumpAcceptsLabel ==
    (/\ result.op = "new"
     /\ program[1].name \in JumpNames
     /\ program[1].dest.k = "label") =>
       /\ result.err = "none"
       /\ cpu.instructions[1].dest = program[1].dest

(***************************************************************************)
(* C19: AND, OR, XOR and NOT store exactly 1 or 0: AND 1 iff both operands *)
(* are nonzero, OR 1 iff at least one is, XOR 1 iff exactly one is, NOT 1  *)
(* iff the operand is zero.                                                *)
(***************************************************************************)
Truth(inst) ==
    LET a == Value(inst.a) # 0
        b == Value(inst.b) # 0
    IN CASE inst.name = "AND" -> a /\ b
         [] inst.name = "OR" -> a \/ b
         [] inst.name = "XOR" -> a # b
         [] inst.name = "NOT" -> ~a

C19_LogicalOperationsStoreBit ==
    [][(Executed /\ ExecutedName \in {"AND", "OR", "XOR", "NOT"}) =>
          LET inst == CurrentInstruction(cpu)
              bit == IF Truth(inst) THEN 1 ELSE 0
          IN /\ call(cpu, inst, "1").val = bit
             /\ resolve(cpu', inst.out).val = bit]_vars

(***************************************************************************)
(* C20: for a binary, unary or comparison operation, an explicit register  *)
(* or memory output receives the result; with no output and a register or  *)
(* memory reference as first input, the first input receives it; with no   *)
(* output and another first input, or with an output that is not a         *)
(* register or memory reference, construction fails.                       *)
(***************************************************************************)
Destination(args) == IF IsReference(args.out) THEN args.out ELSE args.a

C20_OutputDefaultsToFirstInput ==
    [][/\ (result'.op = "new" /\ "out" \in DOMAIN program'[1]) =>
             LET args == program'[1]
             IN /\ (IsReference(args.out) /\ result'.err = "none") =>
                      cpu'.instructions[1].out = args.out
                /\ (IsReference(args.out) /\ args.a.k # "label") => result'.err = "none"
                /\ (args.out = None /\ IsReference(args.a)) =>
                      result'.err = "none" /\ cpu'.instructions[1].out = args.a
                /\ (args.out = None /\ ~IsReference(args.a)) => result'.err # "none"
                /\ (args.out # None /\ ~IsReference(args.out)) => result'.err # "none"
                /\ result'.err # "none" => cpu' = cpu
       /\ (Executed /\ ExecutedName \in BinaryNames \cup UnaryNames) =>
             resolve(cpu', Destination(program[1])).val =
                calc(cpu, CurrentInstruction(cpu), "1").val]_vars

(* ADD(R.a, -1) was constructed without output and executed: R.a holds -1. *)
C20_Witness ==
    /\ result = [op |-> "step", err |-> "none", val |-> None]
    /\ program = <<[name |-> "ADD", a |-> Ra, b |-> PyInt(0 - 1), out |-> None]>>
    /\ cpu.registers["a"] = 0 - 1
    /\ cpu.registers["ip"] = 1

(***************************************************************************)
(* C23 as stated: when ip is in range, step returns to its caller the      *)
(* integer computed by the instruction it executed (the sum for ADD, 0 for *)
(* NOOP and jumps).                                                        *)
(***************************************************************************)
Computed(inst) ==
    CASE inst.name = "ADD" -> Value(inst.a) + Value(inst.b)
      [] inst.name \in JumpNames \cup {"NOOP"} -> 0
      [] OTHER -> call(cpu, inst, "1").val

C23_Original ==
    [][Executed => result'.val = PyInt(Computed(CurrentInstruction(cpu)))]_vars

(***************************************************************************)
(* C23 amended: when ip is in range, step executes the instruction at ip,  *)
(* whose call computes that integer (the sum for ADD, 0 for NOOP and       *)
(* jumps) and leaves the CPU as the instruction left it; step itself       *)
(* returns None to its caller.                                             *)
(***************************************************************************)
C23_StepReturnsNone ==
    [][Executed =>
          LET inst == CurrentInstruction(cpu)
          IN /\ result'.val = None
             /\ call(cpu, inst, "1").val = Computed(inst)
             /\ cpu' = call(cpu, inst, "1").cpu]_vars

(* ADD(M[0], R.a, M[1]) was constructed and stepped with R.a = 1. *)
C23_Witness ==
    /\ result = [op |-> "step", err |-> "none", val |-> None]
    /\ program = <<[name |-> "ADD", a |-> M0, b |-> Ra, out |-> M1]>>
    /\ cpu.memory[1] = 1
    /\ cpu.registers["ip"] = 1

(***************************************************************************)
(* SpecScenario: a client that makes a CPU with registers a and b, loads   *)
(* or runs one of the scenario programs on it and steps it, reads          *)
(* registers by name and writes a name the CPU does not have.  input()     *)
(* returns the lines of stdin in order and blocks when none is left.       *)
(***************************************************************************)
ScenarioRegisters == {"a", "b"}
Rb == RegisterReference("b")
OutOfMemory == MemoryReference(Literal(MemSize))

factorial ==
    <<IOut("NIN", Ra),
      UnaryOperation("CP", Literal(1), Rb),
      BinaryJump("RJGE", Literal(4), Literal(1), Ra),
      BinaryOperation("MUL", Rb, Ra, Rb),
      BinaryOperation("SUB", Ra, Literal(1), Ra),
      BinaryJump("RJGT", Literal(0 - 3), Ra, Literal(1)),
      IOOut("NOUT", Rb, Literal(1))>>

Scenarios ==
    << <<UnaryOperation("CP", Literal(5), Ra), BinaryOperation("ADD", Ra, Literal(1), Ra),
         IOOut("NOUT", Ra, Literal(0))>>,
       <<IA("PUSH", Literal(1)), IA("PUSH", Literal(2)), IOut("POP", None),
         IOut("POP", None), IOut("POP", None)>>,
       factorial,
       <<UnaryOperation("CP", Literal(1), Ra), UnaryOperation("CP", Ra, M1), I0("RET")>>,
       <<UnaryOperation("CP", Literal(2), Rb), IOut("POP", Ra)>>,
       <<Jump("CALL", Rz), I0("NOOP")>>,
       <<I0("NOOP"), Jump("RCALL", OutOfMemory)>>,
       <<IA("PUSH", Literal(3)), IOut("POP", Rz)>>,
       <<IA("PUSH", Literal(4)), IOut("POP", OutOfMemory)>>,
       <<UnaryOperation("CP", Literal(2), Rip), I0("NOOP"), IOut("SEMP", M0)>>,
       <<IOut("SEMP", Rb), BinaryOperation("SUB", M0, Rb, M1), I0("NOOP"),
         UnaryOperation("NOT", M1, Ra)>> >>

ScenarioLines == {str(n) : n \in (0 - 1)..MaxN} \cup {"x"}

InitScenario ==
    /\ cpu = DT31(ScenarioRegisters, MemSize, StackSize, FALSE)
    /\ running = FALSE
    /\ result = [op |-> "init", err |-> "none", val |-> 0]
    /\ output = <<>>
    /\ program = <<>>
    /\ assembled = NotAssembled
    /\ pending = NoPending
    /\ stdin \in {[lines |-> <<l>>, pos |-> 0] : l \in ScenarioLines}
    /\ trace = <<>>
    /\ cpu2 = None

LoadScenario ==
    /\ ~running
    /\ cpu.instructions = <<>>
    /\ \E k \in 1..Len(Scenarios) :
          LET r == load(cpu, Scenarios[k])
          IN cpu' = r.cpu /\ result' = Outcome("load", r)
    /\ trace' = <<>>
    /\ UNCHANGED <<running, output, program, assembled, pending, stdin, cpu2>>

RunScenario ==
    /\ ~running
    /\ cpu.instructions = <<>>
    /\ \E k \in 1..Len(Scenarios) : cpu' = load(cpu, Scenarios[k]).cpu
    /\ running' = TRUE
    /\ result' = [op |-> "run", err |-> "running", val |-> 0]
    /\ trace' = <<>>
    /\ UNCHANGED <<output, program, assembled, pending, stdin, cpu2>>

ReadsInput(c) == InRange(c) /\ CurrentInstruction(c).name \in {"NIN", "OIN"}

StepScenario ==
    /\ Len(trace) < MaxTrace
    /\ ReadsInput(cpu) => stdin.pos < Len(stdin.lines)
    /\ LET inp == IF ReadsInput(cpu) THEN stdin.lines[stdin.pos + 1] ELSE ""
           r == step(cpu, inp)
       IN /\ cpu' = r.cpu
          /\ IF running
             THEN IF r.err = "none"
                  THEN running' = TRUE /\ result' = Outcome("step", r)
                  ELSE running' = FALSE /\ result' = RunOutcome(r)
             ELSE running' = FALSE /\ result' = Outcome("step", r)
    /\ output' = output \o Printed(cpu)
    /\ stdin' = IF ReadsInput(cpu) THEN [stdin EXCEPT !.pos = @ + 1] ELSE stdin
    /\ trace' = IF InRange(cpu) THEN Append(trace, cpu.registers["ip"]) ELSE trace
    /\ TrackPending(0)
    /\ UNCHANGED <<program, assembled, cpu2>>

RegisterCall(op, r, name) ==
    /\ ~running
    /\ cpu' = r.cpu
    /\ result' = [op |-> op, err |-> r.err, val |-> r.val, register |-> name]
    /\ UNCHANGED <<running, output, program, assembled, pending, stdin, trace, cpu2>>

GetRegister ==
    \E name \in ScenarioRegisters \cup {"ip", "z"} :
       RegisterCall("get_register", get_register(cpu, name), name)

SetUnknownRegister ==
    \E v \in {0, 1} : RegisterCall("set_register", set_register(cpu, "z", v), "z")

NextScenario ==
    \/ LoadScenario
    \/ RunScenario
    \/ StepScenario
    \/ GetRegister
    \/ SetUnknownRegister

SpecScenario == InitScenario /\ [][NextScenario]_vars

(***************************************************************************)
(* C21: a POP or RET executed on an empty stack fails with stack           *)
(* underflow, which step raises and run lets through, and the CPU (ip,     *)
(* registers, memory, stack) is left as it was; in PUSH 1; PUSH 2; POP;    *)
(* POP; POP the first four instructions succeed and the third POP fails.   *)
(***************************************************************************)
ScenarioE == Scenarios[2]

C21_UnderflowLeavesCpuUnchanged ==
    [][/\ (StepTaken /\ InRange(cpu) /\ ExecutedName \in {"POP", "RET"} /\ cpu.stack = <<>>) =>
             /\ cpu' = cpu
             /\ ~running'
             /\ result' = [op |-> IF running THEN "run" ELSE "step",
                           err |-> "stack underflow", val |-> 0]
       /\ (StepTaken /\ InRange(cpu) /\ cpu.instructions = ScenarioE) =>
             /\ Len(trace) >= Ip /\ SubSeq(trace, 1, Ip) = [i \in 1..Ip |-> i - 1]
             /\ IF Ip < 4 THEN Raised = "none" ELSE Raised = "stack underflow"]_vars

(* run of PUSH 1; PUSH 2; POP; POP; POP ended with stack underflow at the third POP. *)
C21_Witness ==
    /\ result = [op |-> "run", err |-> "stack underflow", val |-> 0]
    /\ cpu.instructions = ScenarioE
    /\ cpu.registers["ip"] = 4
    /\ cpu.stack = <<>>
    /\ trace = <<0, 1, 2, 3, 4>>

(***************************************************************************)
(* C22: a failing instruction is not rolled back: when CALL or RCALL has   *)
(* pushed the return address and its destination then fails to resolve     *)
(* (unknown register, memory index out of bounds), the return address      *)
(* stays on the stack and ip is unchanged; when POP's write to its output  *)
(* fails, the popped value stays removed.                                  *)
(***************************************************************************)
C22_NoRollback ==
    [][(StepTaken /\ InRange(cpu)) =>
          LET inst == CurrentInstruction(cpu)
          IN /\ (/\ inst.name \in CallNames
                 /\ Len(cpu.stack) < cpu.stack_size
                 /\ resolve(cpu, inst.dest).err # "none") =>
                    /\ Raised = resolve(cpu, inst.dest).err
                    /\ cpu'.stack = Append(cpu.stack, Ip + 1)
                    /\ cpu'.registers = cpu.registers
                    /\ cpu'.memory = cpu.memory
             /\ (/\ inst.name = "POP"
                 /\ cpu.stack # <<>>
                 /\ inst.out # None
                 /\ setitem(cpu, inst.out, 0).err # "none") =>
                    /\ Raised = setitem(cpu, inst.out, 0).err
                    /\ cpu'.stack = SubSeq(cpu.stack, 1, Len(cpu.stack) - 1)
                    /\ cpu'.registers = cpu.registers
                    /\ cpu'.memory = cpu.memory]_vars

(* CALL(R.z) at index 0 failed twice: both return addresses are on the stack. *)
C22_Witness ==
    /\ result = [op |-> "step", err |-> "unknown register", val |-> 0]
    /\ cpu.instructions = Scenarios[6]
    /\ cpu.registers["ip"] = 0
    /\ cpu.stack = <<1, 1>>

(***************************************************************************)
(* C24: load sets ip to 0 and installs the given instruction list and      *)
(* changes nothing else: the other registers, every memory cell and the    *)
(* stack keep their values, so that a run on a CPU that has run before     *)
(* starts from the state the earlier run left, apart from ip.              *)
(***************************************************************************)
Loads == result'.op = "load" \/ (~running /\ running')

AtEnd(prog, i) == \A j \in (i + 1)..Len(prog) : prog[j].k # "instr"

StartedAt(insts, ip) ==
    set_register(load(DT31(Registers, MemSize, StackSize, FALSE), insts).cpu, "ip", ip).cpu

C25_LabelAtEnd ==
    (Assembled /\ assembled.err = "none") =>
       LET out == assembled.out
       IN /\ \A i \in 1..Len(program) :
                (program[i].k = "label" /\ AtEnd(program, i)) =>
                   assembled.label_to_ip[program[i].name] = Len(out)
          /\ \A j \in 1..Len(out) :
                LET inst == InstructionsOf(program)[j]
                    c == StartedAt(out, j - 1)
                    r == step(c, "1")
                IN (/\ HasLabelDest(inst)
                    /\ assembled.label_to_ip[inst.dest.name] = Len(out)
                    /\ jump_condition(c, out[j]).val = 1) =>
                      /\ r.err = "none"
                      /\ r.cpu.registers["ip"] = Len(out)
                      /\ step(r.cpu, "1").err = "EndOfProgram"
                      /\ run_loop(c, RunFuel) = [cpu |-> r.cpu, err |-> "none", done |-> TRUE]
          /\ (\A i \in 1..Len(program) : program[i].k = "label") => out = <<>>

(* NOOP; a call to x; x: the call at index 1 resolved to 2, the length of the output. *)
C25_Witness ==
    /\ Assembled /\ assembled.err = "none"
    /\ Len(program) = 3 /\ Len(assembled.out) = 2
    /\ program[3] = Label("x")
    /\ program[2] = Jump("CALL", Label("x"))
    /\ assembled.out[2].dest = Literal(2)
    /\ step(StartedAt(assembled.out, 1), "1").cpu.registers["ip"] = 2

(***************************************************************************)
(* run is a loop around step with no suspension point: while it is         *)
(* running, the next step is taken.                                        *)
(***************************************************************************)
SpecScenarioFair == SpecScenario /\ WF_vars(running /\ StepScenario)

(***************************************************************************)
(* C26: run of the decrement-loop factorial program on input n, for every  *)
(* n from -1 to MaxN, ends normally (step raised EndOfProgram) with        *)
(* register b holding n! (1 for n <= 1): 120 for n = 5.                    *)
(***************************************************************************)
RECURSIVE Fact(_)
Fact(n) == IF n <= 1 THEN 1 ELSE n * Fact(n - 1)

FactorialInput == int(stdin.lines[1])

RunsFactorial ==
    /\ running
    /\ cpu.instructions = factorial
    /\ IsIntText(stdin.lines[1])

FactorialDone ==
    /\ ~running
    /\ result = [op |-> "run", err |-> "none", val |-> 0]
    /\ cpu.instructions = factorial
    /\ cpu.registers["ip"] = Len(factorial)
    /\ cpu.registers["b"] = Fact(FactorialInput)
    /\ FactorialInput = 5 => cpu.registers["b"] = 120

C26_FactorialTerminates ==
    /\ RunsFactorial ~> FactorialDone
    /\ []((~running /\ result.op = "run" /\ cpu.instructions = factorial
           /\ IsIntText(stdin.lines[1])) => FactorialDone)

(* run of factorial on input 5 has ended with b = 120. *)
C26_Witness ==
    /\ FactorialDone
    /\ stdin = [lines |-> <<"5">>, pos |-> 1]
    /\ cpu.registers["b"] = 120
    /\ output = <<[text |-> "120", end |-> "\n"]>>

(***************************************************************************)
(* C27 as stated: run of a program with no jump, call or return executes   *)
(* each instruction once, in list order, and, when no instruction fails,   *)
(* ends after exactly len(program) steps with ip = len(program); run of    *)
(* [CP(5, a), ADD(a, 1), NOUT(a, 0)] prints "6" without newline and        *)
(* leaves a = 6.                                                           *)
(***************************************************************************)
Straight(insts) == \A j \in 1..Len(insts) : insts[j].name \notin JumpNames \cup {"RET"}

InRun == running \/ (result.op = "run" /\ result.err = "none")

InListOrder ==
    /\ trace = [i \in 1..Len(trace) |-> i - 1]
    /\ ~running =>
          /\ Len(trace) = Len(cpu.instructions)
          /\ cpu.registers["ip"] = Len(cpu.instructions)
    /\ (~running /\ cpu.instructions = Scenarios[1]) =>
          /\ output = <<[text |-> "6", end |-> ""]>>
          /\ cpu.registers["a"] = 6

C27_Original == (InRun /\ Straight(cpu.instructions)) => InListOrder

(***************************************************************************)
(* C27 amended: the same, for a program with no jump, call or return and   *)
(* no instruction whose output reference is the ip register.               *)
(***************************************************************************)
NoIpOutput(insts) == \A j \in 1..Len(insts) : ~WritesIp(insts[j])

C27_StraightLineRun ==
    (InRun /\ Straight(cpu.instructions) /\ NoIpOutput(cpu.instructions)) => InListOrder

(* run of [CP(5, a), ADD(a, 1), NOUT(a, 0)] has ended after three steps. *)
C27_Witness ==
    /\ result = [op |-> "run", err |-> "none", val |-> 0]
    /\ ~running
    /\ cpu.instructions = Scenarios[1]
    /\ trace = <<0, 1, 2>>
    /\ output = <<[text |-> "6", end |-> ""]>>
    /\ cpu.registers["a"] = 6

(***************************************************************************)
(* C30: in every reachable state the register names are those given at     *)
(* construction plus ip, the memory has memory_size cells, and memory_size *)
(* and stack_size have their construction values, whatever instruction or  *)
(* call ran; reading or writing any other register name fails with         *)
(* unknown register and changes nothing, reading a known one returns its   *)
(* value.                                                                  *)
(***************************************************************************)
ShapeFixed(c) ==
    /\ DOMAIN c.registers = ScenarioRegisters \cup {"ip"}
    /\ DOMAIN c.memory = 0..(MemSize - 1)
    /\ c.memory_size = MemSize
    /\ c.stack_size = StackSize

C30_ShapeFixed ==
    /\ [] ShapeFixed(cpu)
    /\ [][result'.op \in {"get_register", "set_register"} =>
             /\ cpu' = cpu
             /\ IF result'.register \in ScenarioRegisters \cup {"ip"}
                THEN /\ result'.err = "none"
                     /\ result'.val = cpu.registers[result'.register]
                ELSE result'.err = "unknown register"]_vars

(* After a run that wrote both registers, writing register z failed. *)
C30_Witness ==
    /\ result = [op |-> "set_register", err |-> "unknown register", val |-> 0,
                 register |-> "z"]
    /\ cpu.registers["a"] = 1 /\ cpu.registers["b"] = 120
    /\ cpu.instructions = factorial

(***************************************************************************)
(* instructions.py: the constructors of the stack and I/O instructions.    *)
(***************************************************************************)
Instruction_init(name) == Built(I0(name))

PUSH_init(a) ==
    LET x == as_op(a)
    IN IF x.err # "none" THEN x ELSE Built(IA("PUSH", x.obj))

POP_init(out) ==
    IF out = None THEN Built(IOut("POP", None))
    ELSE LET o == as_op(out)
         IN IF o.err # "none" THEN o ELSE Built(IOut("POP", o.obj))

(* SEMP, NIN and OIN. *)
SEMP_init(name, out) ==
    LET o == as_op(out)
    IN IF o.err # "none" THEN o ELSE Built(IOut(name, o.obj))

(* NOUT and OOUT; b defaults to L[0]. *)
NOUT_init(name, a, b) ==
    LET x == as_op(a)
        y == as_op(IF b = None THEN Literal(0) ELSE b)
    IN IF x.err # "none" THEN x
       ELSE IF y.err # "none" THEN y
       ELSE Built(IOOut(name, x.obj, y.obj))

(***************************************************************************)
(* parser.py.  A line of assembly text is kept as the tokens that          *)
(* TOKEN_PATTERN finds in it: the instruction name, then the operand       *)
(* tokens, none of which holds a blank or a comma.  A token is a string;   *)
(* its shape is found by comparing it with the strings of that shape.      *)
(***************************************************************************)
Chars == {"A", "z"}
ord(ch) == IF ch = "A" THEN 65 ELSE 122
LC(ch) == Literal(ord(ch))

TokenNames == {"a", "b", "z", "ip"}
AtomTokens == {str(n) : n \in ParseRange} \cup {"R." \o r : r \in TokenNames}
                 \cup {"x", "R[a]"}
InnerTokens == AtomTokens \cup {"M[" \o t \o "]" : t \in AtomTokens}

(* MEMORY_PATTERN: the text between the brackets of M[...] or [...]. *)
MemoryInner(token) ==
    {s \in InnerTokens : token = "M[" \o s \o "]" \/ token = "[" \o s \o "]"}

(* REGISTER_PREFIX_PATTERN: the name after R. *)
RegisterName(token) == {r \in TokenNames : token = "R." \o r}

(* M[inner]: a label is no memory address. *)
memory_operand(inner) ==
    IF inner.err # "none" THEN inner
    ELSE IF inner.obj.k = "label" THEN Raise("ParserError")
    ELSE Built(MemoryReference(inner.obj))

RECURSIVE parse_operand_registers_as_labels(_)
parse_operand_registers_as_labels(token) ==
    IF \E ch \in Chars : token = "'" \o ch \o "'"
    THEN Built(LC(CHOOSE ch \in Chars : token = "'" \o ch \o "'"))
    ELSE IF MemoryInner(token) # {}
    THEN memory_operand(
            parse_operand_registers_as_labels(CHOOSE s \in MemoryInner(token) : TRUE))
    ELSE IF IsIntText(token) THEN Built(Literal(int(token)))
    ELSE Built(Label(token))

RECURSIVE parse_operand(_)
parse_operand(token) ==
    IF \E ch \in Chars : token = "'" \o ch \o "'"
    THEN Built(LC(CHOOSE ch \in Chars : token = "'" \o ch \o "'"))
    ELSE IF MemoryInner(token) # {}
    THEN memory_operand(parse_operand(CHOOSE s \in MemoryInner(token) : TRUE))
    ELSE IF RegisterName(token) # {}
    THEN Built(RegisterReference(CHOOSE r \in RegisterName(token) : TRUE))
    ELSE IF IsIntText(token) THEN Built(Literal(int(token)))
    ELSE Built(Label(token))

(* The most operands an instruction's constructor takes. *)
MaxOperands(name) ==
    IF name \in {"NOOP", "RET"} THEN 0
    ELSE IF name \in UnconditionalNames \cup {"PUSH", "POP", "SEMP", "NIN", "OIN"} THEN 1
    ELSE IF name \in UnaryNames \cup {"JIF", "RJIF", "NOUT", "OOUT"} THEN 2
    ELSE 3

(* The i-th parsed operand, or no argument. *)
Argument(ops, i) == IF i <= Len(ops) THEN ops[i].obj ELSE None

(* inst_func applied to the operands: the parsed operands handed to the   *)
(* instruction's constructor in order.                                     *)
inst_func(name, ops) ==
    IF name \in {"NOOP", "RET"} THEN Instruction_init(name)
    ELSE IF name = "PUSH" THEN PUSH_init(Argument(ops, 1))
    ELSE IF name = "POP" THEN POP_init(Argument(ops, 1))
    ELSE IF name \in {"SEMP", "NIN", "OIN"} THEN SEMP_init(name, Argument(ops, 1))
    ELSE IF name \in {"NOUT", "OOUT"}
    THEN NOUT_init(name, Argument(ops, 1), Argument(ops, 2))
    ELSE IF name \in UnconditionalNames THEN Jump_init(name, Argument(ops, 1))
    ELSE IF name \in {"JIF", "RJIF"}
    THEN UnaryJump_init(name, Argument(ops, 1), Argument(ops, 2))
    ELSE IF name \in JumpNames
    THEN BinaryJump_init(name, Argument(ops, 1), Argument(ops, 2), Argument(ops, 3))
    ELSE IF name \in UnaryNames
    THEN UnaryOperation_init(name, Argument(ops, 1), Argument(ops, 2))
    ELSE IF name \in BinaryNames
    THEN BinaryOperation_init(name, Argument(ops, 1), Argument(ops, 2), Argument(ops, 3))
    ELSE Raise("Unknown instruction")

(* A constructor that raises TypeError or ValueError makes a ParserError. *)
ParserError(r) == IF r.err # "none" THEN Raise("ParserError") ELSE r

parse_instruction(name, ops) ==
    IF \E i \in 1..Len(ops) : ops[i].err # "none" THEN Raise("ParserError")
    ELSE IF Len(ops) > MaxOperands(name) THEN Raise("ParserError")
    ELSE ParserError(inst_func(name, ops))

(* parse_program, one line: the operand tokens are parsed, then the        *)
(* instruction is built.                                                   *)
parse_line(line) ==
    parse_instruction(line.name,
                      [i \in 1..Len(line.tokens) |-> parse_operand(line.tokens[i])])

(* parse_program: the loop over the lines, each instruction appended to    *)
(* the program; the first line that fails ends it with a ParserError.      *)
RECURSIVE parse_lines(_, _)
parse_lines(text, prog) ==
    IF text = <<>> THEN Built(prog)
    ELSE IF parse_line(Head(text)).err # "none" THEN Raise("ParserError")
    ELSE parse_lines(Tail(text), Append(prog, parse_line(Head(text)).obj))

parse_program(text) == parse_lines(text, <<>>)

(***************************************************************************)
(* The state snapshot.  dump and load_from_dump are not in cpu.py; they    *)
(* are taken from the specification and from test_cpu_serialization.py:    *)
(* the snapshot holds the configuration, every register, the whole memory, *)
(* the stack and the program as assembly text ("CP 10, R.a"), and          *)
(* load_from_dump builds a CPU of that configuration, parses and loads the *)
(* program and puts the registers, memory and stack back.                  *)
(***************************************************************************)
RECURSIVE operand_text(_)
operand_text(op) ==
    IF op.k = "lit" THEN str(op.value)
    ELSE IF op.k = "reg" THEN "R." \o op.register
    ELSE IF op.k = "mem" THEN "M[" \o operand_text(op.address) \o "]"
    ELSE op.name

(* The operands of an instruction in the order its constructor takes them. *)
Operands(inst) ==
    LET has(f) == f \in DOMAIN inst
    IN (IF has("dest") THEN <<inst.dest>> ELSE <<>>)
       \o (IF has("a") THEN <<inst.a>> ELSE <<>>)
       \o (IF has("b") THEN <<inst.b>> ELSE <<>>)
       \o (IF has("out") /\ inst.out # None THEN <<inst.out>> ELSE <<>>)

OperandTexts(ops) == [i \in 1..Len(ops) |-> operand_text(ops[i])]

instruction_text(inst) == [name |-> inst.name, tokens |-> OperandTexts(Operands(inst))]

RequiredFields == {"registers", "memory", "stack", "memory_size", "stack_size",
                   "wrap_memory"}

dump(c) ==
    [registers |-> c.registers,
     memory |-> c.memory,
     stack |-> c.stack,
     memory_size |-> c.memory_size,
     stack_size |-> c.stack_size,
     wrap_memory |-> c.wrap_memory,
     program |-> [i \in 1..Len(c.instructions) |-> instruction_text(c.instructions[i])]]

(* A CPU of the snapshot's configuration, loaded with the parsed program,  *)
(* then given the snapshot's registers, memory and stack.                  *)
Restored(state, parsed) ==
    IF parsed.err # "none" THEN Raise(parsed.err)
    ELSE Built([load(DT31(DOMAIN state.registers \ {"ip"}, state.memory_size,
                          state.stack_size, state.wrap_memory),
                     parsed.obj).cpu EXCEPT
                   !.registers = state.registers,
                   !.memory = state.memory,
                   !.stack = state.stack])

load_from_dump(state) ==
    IF ~(RequiredFields \subseteq DOMAIN state) THEN Raise("missing required field")
    ELSE IF "program" \in DOMAIN state THEN Restored(state, parse_program(state.program))
    ELSE Restored(state, Built(<<>>))

(***************************************************************************)
(* SpecDump: a client that sets a register and pushes, loads a program and *)
(* steps it, takes a snapshot, restores it into a second CPU, and from     *)
(* then on steps the two CPUs together, both reading the same input line   *)
(* (StepBoth steps the one CPU while there is no second).                  *)
(***************************************************************************)
BeforeDump(A) == cpu2 = None /\ A

BeforeLoad(A) == BeforeDump(cpu.instructions = <<>> /\ A)

LoadDump == BeforeLoad(Load(AllPrograms))

Restore ==
    /\ ~running
    /\ cpu2 = None
    /\ \E r \in {load_from_dump(dump(cpu))} :
          /\ cpu2' = r.obj
          /\ result' = [op |-> "load_from_dump", err |-> r.err, val |-> 0]
    /\ UNCHANGED <<cpu, running, output, program, assembled, pending, stdin, trace>>

(* The CPUs there are, numbered, and one step of each on the same line. *)
Present == {<<1, cpu>>} \cup (IF cpu2 = None THEN {} ELSE {<<2, cpu2>>})

StepEach(inp) == {<<p[1], step(p[2], inp)>> : p \in Present}

StepBoth ==
    /\ ~running
    /\ Len(output \o Printed(cpu)) <= MaxOut
    /\ \E inp \in InputLines :
          \E rs \in {StepEach(inp)} :
             \E r \in {q[2] : q \in {q \in rs : q[1] = 1}} :
                /\ InBounds(r.cpu)
                /\ cpu' = r.cpu
                /\ result' = Outcome("step", r)
                /\ IF cpu2 = None THEN cpu2' = None
                   ELSE \E r2 \in {q[2] : q \in {q \in rs : q[1] = 2}} : cpu2' = r2.cpu
    /\ output' = output \o Printed(cpu)
    /\ TrackPending(0)
    /\ UNCHANGED <<running, program, assembled, stdin, trace>>

NextDump ==
    \/ BeforeLoad(SetRegister)
    \/ BeforeLoad(Push)
    \/ LoadDump
    \/ Restore
    \/ StepBoth

SpecDump == Init /\ [][NextDump]_vars

(***************************************************************************)
(* C28: the CPU restored from a snapshot has the configuration, registers  *)
(* (ip included), whole memory, stack and program of the CPU the snapshot  *)
(* was taken of, restoring never fails, and after every step the two CPUs  *)
(* take together they still have the same registers, memory and stack.     *)
(***************************************************************************)
SameState(c, d) ==
    /\ c.registers = d.registers
    /\ c.memory = d.memory
    /\ c.stack = d.stack
    /\ c.memory_size = d.memory_size
    /\ c.stack_size = d.stack_size
    /\ c.wrap_memory = d.wrap_memory
    /\ c.instructions = d.instructions

SharedObjects_class_registers(c, d) ==
    {"registers"} \cup (IF c.instructions = d.instructions THEN {"instructions"} ELSE {})

SharedObjects(c, d) == IF c.instructions = d.instructions THEN {"instructions"} ELSE {}

(* CPU d after the objects of c it shares have become those of next. *)
Aliased(next, d, shared) == [f \in DOMAIN d |-> IF f \in shared THEN next[f] ELSE d[f]]

PairPrograms == {7, 9, 12}

InitPair ==
    /\ cpu = DT31(Registers, MemSize, StackSize, FALSE)
    /\ cpu2 = DT31(Registers, MemSize, StackSize, FALSE)
    /\ running = FALSE
    /\ result = [op |-> "init", err |-> "none", val |-> 0]
    /\ output = <<>>
    /\ program = <<>>
    /\ assembled = NotAssembled
    /\ pending = NoPending
    /\ stdin \in {[lines |-> <<l, m>>, pos |-> 0] : l, m \in InputLines}
    /\ trace = <<>>

LoadFirst ==
    /\ cpu.instructions = <<>>
    /\ \E k \in PairPrograms :
          \E r \in {load(cpu, Programs[k])} :
             /\ cpu' = r.cpu
             /\ cpu2' = Aliased(r.cpu, cpu2, SharedObjects(cpu, cpu2) \ {"instructions"})
             /\ result' = Outcome("load", r)
    /\ UNCHANGED <<running, output, program, assembled, pending, stdin, trace>>

LoadSecond ==
    /\ cpu2.instructions = <<>>
    /\ \E k \in PairPrograms :
          \E r \in {load(cpu2, Programs[k])} :
             /\ cpu2' = r.cpu
             /\ cpu' = Aliased(r.cpu, cpu, SharedObjects(cpu2, cpu) \ {"instructions"})
             /\ result' = Outcome("load", r)
    /\ UNCHANGED <<running, output, program, assembled, pending, stdin, trace>>

(* The line the next step of c reads, and what it leaves of the lines. *)
NextLine(c, lines) == IF ReadsInput(c) THEN Head(lines) ELSE ""
RestLines(c, lines) == IF ReadsInput(c) THEN Tail(lines) ELSE lines
Unread == SubSeq(stdin.lines, stdin.pos + 1, Len(stdin.lines))

StepOf(who, c, other) ==
    /\ c.instructions # <<>>
    /\ Len(trace) < MaxPairSteps
    /\ ReadsInput(c) => Unread # <<>>
    /\ \E r \in {step(c, NextLine(c, Unread))} :
          /\ InBounds(r.cpu)
          /\ IF who = 1
             THEN cpu' = r.cpu /\ cpu2' = Aliased(r.cpu, other, SharedObjects(c, other))
             ELSE cpu2' = r.cpu /\ cpu' = Aliased(r.cpu, other, SharedObjects(c, other))
          /\ result' = Outcome("step", r)
    /\ output' = output \o Printed(c)
    /\ stdin' = [stdin EXCEPT !.pos = IF ReadsInput(c) THEN @ + 1 ELSE @]
    /\ trace' = Append(trace, [who |-> who, read |-> ReadsInput(c),
                               line |-> NextLine(c, Unread)])
    /\ UNCHANGED <<running, program, assembled, pending>>

StepFirst == StepOf(1, cpu, cpu2)

StepSecond == StepOf(2, cpu2, cpu)

NextPair ==
    \/ LoadFirst
    \/ LoadSecond
    \/ StepFirst
    \/ StepSecond

SpecPair == InitPair /\ [][NextPair]_vars

(***************************************************************************)
(* The state a CPU is in after n steps taken alone from the state load     *)
(* left it in, reading the given lines.                                    *)
(***************************************************************************)
RECURSIVE Alone(_, _, _)
Alone(c, lines, n) ==
    IF n = 0 THEN c
    ELSE IF ReadsInput(c) /\ lines = <<>> THEN None
    ELSE Alone(step(c, NextLine(c, lines)).cpu, RestLines(c, lines), n - 1)

Loaded(c) == load(DT31(Registers, MemSize, StackSize, FALSE), c.instructions).cpu

ByFirst(e) == e.who = 1
BySecond(e) == e.who = 2
ReadByFirst(e) == e.who = 1 /\ e.read
ReadBySecond(e) == e.who = 2 /\ e.read
LinesOf(steps) == [i \in 1..Len(steps) |-> steps[i].line]

(***************************************************************************)
(* C29 as stated: under every interleaving of the steps of two CPUs, each  *)
(* CPU is in the state it reaches by as many steps taken alone, on the     *)
(* same standard input.                                                    *)
(***************************************************************************)
C29_Original ==
    /\ cpu = Alone(Loaded(cpu), stdin.lines, Len(SelectSeq(trace, ByFirst)))
    /\ cpu2 = Alone(Loaded(cpu2), stdin.lines, Len(SelectSeq(trace, BySecond)))

(***************************************************************************)
(* C29 amended: two CPUs share no mutable state but the standard input of  *)
(* the process: under every interleaving of their steps, also when both    *)
(* loaded the same instruction list, each CPU is in the state it reaches   *)
(* by as many steps taken alone on the input lines its own steps read.     *)
(***************************************************************************)
C29_IndependentButForInput ==
    /\ cpu = Alone(Loaded(cpu), LinesOf(SelectSeq(trace, ReadByFirst)),
                   Len(SelectSeq(trace, ByFirst)))
    /\ cpu2 = Alone(Loaded(cpu2), LinesOf(SelectSeq(trace, ReadBySecond)),
                    Len(SelectSeq(trace, BySecond)))

(* Both CPUs loaded [SUB M[1], 1, M[1]; NIN a; AND a, M[0], ip]; the second *)
(* read -1 before the first read 1, and both stepped on.                    *)
C29_Witness ==
    /\ cpu.instructions = Programs[12]
    /\ cpu2.instructions = Programs[12]
    /\ stdin = [lines |-> <<"-1", "1">>, pos |-> 2]
    /\ cpu.registers = [a |-> 1, ip |-> 0]
    /\ cpu2.registers["a"] = 0 - 1
    /\ Len(SelectSeq(trace, ByFirst)) = 3
    /\ Len(SelectSeq(trace, BySecond)) >= 2
    /\ trace[Len(trace)].who = 1

(***************************************************************************)
(* cpu.py: DT31.__init__ from its arguments.  registers is None or a list  *)
(* of names; the sizes are checked before anything is built.               *)
(***************************************************************************)
RegisterList(names) == [k |-> "list", names |-> names]

DT31_init_unchecked_memory(registers, memory_size, stack_size, wrap_memory) ==
    IF stack_size <= 0 THEN Raise("stack_size must be greater than 0")
    ELSE IF registers # None /\ "ip" \in registers.names
    THEN Raise("register name 'ip' is reserved")
    ELSE Built(DT31(IF registers = None THEN {"a", "b", "c"} ELSE registers.names,
                    memory_size, stack_size, wrap_memory))

DT31_init(registers, memory_size, stack_size, wrap_memory) ==
    IF stack_size <= 0 THEN Raise("stack_size must be greater than 0")
    ELSE IF memory_size <= 0 THEN Raise("memory_size must be greater than 0")
    ELSE IF registers # None /\ "ip" \in registers.names
    THEN Raise("register name 'ip' is reserved")
    ELSE Built(DT31(IF registers = None THEN {"a", "b", "c"} ELSE registers.names,
                    memory_size, stack_size, wrap_memory))

(***************************************************************************)
(* SpecConfig: a client that constructs CPUs from every choice of register *)
(* names and sizes, and pushes on the CPU it got.                          *)
(***************************************************************************)
ConfigSizes == (0 - 1)..MaxSize
ConfigRegisters == {None} \cup {RegisterList(S) : S \in SUBSET {"a", "z", "ip"}}

InitConfig ==
    /\ cpu = None
    /\ InitCommon

Construct ==
    \E registers \in ConfigRegisters, memory_size \in ConfigSizes,
       stack_size \in ConfigSizes, wrap_memory \in BOOLEAN :
       \E r \in {DT31_init(registers, memory_size, stack_size, wrap_memory)} :
          /\ cpu' = r.obj
          /\ result' = [op |-> "DT31", err |-> r.err, val |-> 0,
                        registers |-> registers, memory_size |-> memory_size,
                        stack_size |-> stack_size, wrap_memory |-> wrap_memory]
          /\ UNCHANGED <<others, running, output, program, assembled, pending>>

PushConfig ==
    /\ cpu # None
    /\ \E v \in Val : \E r \in {push(cpu, v)} :
          /\ cpu' = r.cpu
          /\ result' = [result EXCEPT !.op = "push", !.err = r.err]
    /\ UNCHANGED <<others, running, output, program, assembled, pending>>

NextConfig ==
    \/ Construct
    \/ PushConfig

SpecConfig == InitConfig /\ [][NextConfig]_vars

DerefSize == 6
DerefCells == 0..(DerefSize - 1)

M2 == MemoryReference(Literal(2))
M5 == MemoryReference(Literal(5))

DerefPrograms ==
    << <<UnaryOperation("CP", MemoryReference(M2), MemoryReference(M5))>>,
       <<UnaryOperation("CP", MemoryReference(MemoryReference(M2)), M5)>>,
       <<UnaryOperation("CP", M2, MemoryReference(MemoryReference(M5)))>>,
       <<BinaryOperation("ADD", MemoryReference(M2), M5, MemoryReference(M5))>>,
       <<UnaryOperation("CP", MemoryReference(Ra), MemoryReference(MemoryReference(Ra)))>> >>

InitDeref ==
    /\ cpu = DT31(Registers, DerefSize, StackSize, FALSE)
    /\ InitCommon

Counted ==
    /\ Len(trace) < MaxDerefOps
    /\ trace' = Append(trace, 0)
    /\ UNCHANGED <<stdin, cpu2, running, output, program, assembled, pending>>

WriteDeref ==
    /\ cpu.instructions = <<>>
    /\ \E i \in DerefCells, v \in DerefCells :
          \E r \in {set_memory(cpu, i, v)} :
             cpu' = r.cpu /\ result' = Outcome("set_memory", r)
    /\ Counted

SetRegisterDeref ==
    /\ cpu.instructions = <<>>
    /\ \E v \in DerefCells :
          \E r \in {set_register(cpu, "a", v)} :
             cpu' = r.cpu /\ result' = Outcome("set_register", r)
    /\ Counted

LoadDeref ==
    /\ cpu.instructions = <<>>
    /\ \E k \in 1..Len(DerefPrograms) :
          \E r \in {load(cpu, DerefPrograms[k])} :
             cpu' = r.cpu /\ result' = Outcome("load", r)
    /\ Counted

StepDeref ==
    /\ \E r \in {step(cpu, "")} :
          cpu' = r.cpu /\ result' = Outcome("step", r)
    /\ Counted

NextDeref ==
    \/ WriteDeref
    \/ SetRegisterDeref
    \/ LoadDeref
    \/ StepDeref

SpecDeref == InitDeref /\ [][NextDeref]_vars

(***************************************************************************)
(* C32: resolving an operand leaves the CPU as it is; M[x] reads the cell  *)
(* whose address is the value of x, at every depth; an instruction whose   *)
(* output is M[y] stores at the address that is the value of y, not at the *)
(* value stored there: CP(M[M[2]], M[M[5]]) sets memory[memory[5]] to      *)
(* memory[memory[2]].                                                      *)
(***************************************************************************)
DerefOperands ==
    LET atoms == {Literal(i) : i \in DerefCells} \cup {Ra}
        one == {MemoryReference(x) : x \in atoms}
        two == {MemoryReference(x) : x \in one}
    IN atoms \cup one \cup two \cup {MemoryReference(x) : x \in two}

ResolveIsPure ==
    \A op \in DerefOperands :
       /\ resolve(cpu, op).cpu = cpu
       /\ op.k = "mem" /\ resolve(cpu, op).err = "none" =>
             /\ resolve(cpu, op.address).err = "none"
             /\ resolve(cpu, op).val = cpu.memory[resolve(cpu, op.address).val]

StoresAtAddress ==
    Executed /\ Raised = "none" /\ CurrentInstruction(cpu).out.k = "mem" =>
       LET inst == CurrentInstruction(cpu)
           address == resolve(cpu, inst.out.address).val
           value == IF inst.name = "CP" THEN resolve(cpu, inst.a).val
                    ELSE resolve(cpu, inst.a).val + resolve(cpu, inst.b).val
       IN /\ cpu'.memory[address] = value
          /\ cpu.instructions = DerefPrograms[1] =>
                cpu'.memory[cpu.memory[5]] = cpu.memory[cpu.memory[2]]

C32_Dereference == []ResolveIsPure /\ [][StoresAtAddress]_vars

(* CP(M[M[2]], M[M[5]]) with memory[2] = 5 and memory[5] = 3 has stored 3  *)
(* in cell 3: the address read from cell 5, the value read from cell 5.    *)
C32_Witness ==
    /\ cpu.instructions = DerefPrograms[1]
    /\ result = [op |-> "step", err |-> "none", val |-> None]
    /\ cpu.memory = [i \in DerefCells |-> IF i = 2 THEN 5 ELSE IF i \in {3, 5} THEN 3 ELSE 0]
    /\ cpu.registers["ip"] = 1

(***************************************************************************)
(* SpecDiv: a client that sets registers a and b to values of either sign, *)
(* then loads or runs a program that divides and steps it.                 *)
(***************************************************************************)
DivVal == (0 - MaxDiv)..MaxDiv

DivPrograms ==
    << <<BinaryOperation("DIV", Ra, Rb, M0)>>,
       <<I0("NOOP"), IA("PUSH", Ra), BinaryOperation("DIV", Ra, Rb, Ra)>>,
       <<UnaryOperation("CP", Rb, M1), BinaryOperation("DIV", Literal(0 - 3), M1, Rb)>> >>

InitDiv ==
    /\ cpu = DT31(ScenarioRegisters, MemSize, StackSize, FALSE)
    /\ InitCommon

SetRegisterDiv ==
    /\ cpu.instructions = <<>>
    /\ \E r \in ScenarioRegisters, v \in DivVal :
          RegisterCall("set_register", set_register(cpu, r, v), r)

LoadDiv ==
    /\ ~running
    /\ cpu.instructions = <<>>
    /\ \E k \in 1..Len(DivPrograms) :
          \E r \in {load(cpu, DivPrograms[k])} :
             cpu' = r.cpu /\ result' = Outcome("load", r)
    /\ UNCHANGED <<others, running, output, program, assembled, pending>>

RunDiv ==
    /\ ~running
    /\ cpu.instructions = <<>>
    /\ \E k \in 1..Len(DivPrograms) : cpu' = load(cpu, DivPrograms[k]).cpu
    /\ running' = TRUE
    /\ result' = [op |-> "run", err |-> "running", val |-> 0]
    /\ UNCHANGED <<others, output, program, assembled, pending>>

NextDiv ==
    \/ SetRegisterDiv
    \/ LoadDiv
    \/ RunDiv
    \/ StepScenario

SpecDiv == InitDiv /\ [][NextDiv]_vars

(***************************************************************************)
(* C33: DIV stores the floor of a / b, the integer q with                  *)
(* q * b <= a < (q + 1) * b for b > 0 and q * b >= a > (q + 1) * b for     *)
(* b < 0; when b is 0 the instruction fails with division by zero, which   *)
(* step raises and run lets through, and ip, registers, memory and stack   *)
(* are unchanged.                                                          *)
(***************************************************************************)
IsFloor(q, a, b) ==
    IF b > 0 THEN q * b <= a /\ a < (q + 1) * b
    ELSE q * b >= a /\ a > (q + 1) * b

C33_FloorDivision ==
    [][StepTaken /\ InRange(cpu) /\ CurrentInstruction(cpu).name = "DIV" =>
          IF Value(CurrentInstruction(cpu).b) = 0
          THEN /\ result'.err = "division by zero"
               /\ ~running'
               /\ cpu' = cpu
          ELSE /\ Raised = "none"
               /\ IsFloor(resolve(cpu', CurrentInstruction(cpu).out).val,
                          Value(CurrentInstruction(cpu).a),
                          Value(CurrentInstruction(cpu).b))]_vars

(* run of [NOOP, PUSH a, DIV a, b] with a = -3 and b = 2 has stored -2. *)
C33_Witness ==
    /\ cpu.instructions = DivPrograms[2]
    /\ running
    /\ cpu.registers = [a |-> 0 - 2, b |-> 2, ip |-> 3]
    /\ cpu.stack = <<0 - 3>>

(* run of the same program with b = 0 ended with division by zero at ip 2. *)
C33_WitnessZero ==
    /\ cpu.instructions = DivPrograms[2]
    /\ result = [op |-> "run", err |-> "division by zero", val |-> 0]
    /\ cpu.registers = [a |-> 3, b |-> 0, ip |-> 2]
    /\ cpu.stack = <<3>>

(***************************************************************************)
(* SpecOut: a client that pushes, constructs one instruction that takes an *)
(* output from its arguments, loads it when the constructor returned, and  *)
(* steps it.  program holds the arguments of the constructor call.         *)
(***************************************************************************)
OutputArguments == OutArguments \cup {Literal(1)}

NewOutput ==
    \E name \in {"POP", "SEMP", "NIN", "OIN"}, out \in OutputArguments :
       IF name = "POP"
       THEN New([name |-> name, out |-> out], POP_init(out))
       ELSE New([name |-> name, out |-> out], SEMP_init(name, out))

NextOut ==
    \/ Push
    \/ NewOperation
    \/ NewOutput
    \/ Step

SpecOut == Init /\ [][NextOut]_vars

(***************************************************************************)
(* C34: the constructor of every instruction that takes an output (binary  *)
(* and unary operations, CP, POP, SEMP, NIN, OIN) fails when the output    *)
(* given is an operand or integer that is not a register or memory         *)
(* reference, so that no constructed instruction fails at execution for    *)
(* having such an output.                                                  *)
(***************************************************************************)
C34_OutputCheckedAtConstruction ==
    /\ (/\ result.op = "new"
        /\ "out" \in DOMAIN program[1]
        /\ program[1].out # None
        /\ ~IsReference(program[1].out)) => result.err # "none"
    /\ result.op = "step" => result.err # "can't get item"

(***************************************************************************)
(* SpecFail: programs whose instructions fail in some states: an unknown   *)
(* register or an address outside the memory as input, as output or as     *)
(* destination, a division by zero, a push on a full stack, a pop or a     *)
(* return from an empty one; a program whose outputs are addresses read    *)
(* from ip and from the cell written; and conditional jumps whose          *)
(* destination cannot be resolved (a Label is put in dest as assemble does *)
(* with its resolved value, by assignment).  The client sets register a    *)
(* between steps.                                                          *)
(***************************************************************************)
MemoryAtRa == MemoryReference(Ra)

FailPrograms ==
    << <<BinaryOperation("ADD", Ra, Literal(0), Rz),
         BinaryOperation("DIV", Literal(1), Ra, MemoryAtRa)>>,
       <<IA("PUSH", Ra), IA("PUSH", Ra), IA("PUSH", Ra), IA("PUSH", Ra)>>,
       <<IOut("POP", Ra)>>,
       <<I0("RET")>>,
       <<UnaryOperation("CP", Ra, MemoryAtRa), UnaryOperation("NOT", MemoryAtRa, Ra),
         UnaryOperation("BNOT", Rz, Ra)>>,
       <<Jump("CALL", MemoryAtRa), Jump("JMP", Rz)>>,
       <<I0("NOOP"), BinaryOperation("ADD", Literal(0), Literal(1), MemoryReference(Rip)),
         UnaryOperation("NOT", Ra, OutOfMemory)>>,
       <<BinaryOperation("ADD", Literal(0), Literal(0 - 1), MemoryReference(Rip)),
         UnaryOperation("CP", Literal(1), MemoryReference(M0))>>,
       <<BinaryJump("JEQ", Rz, Ra, Literal(0)), BinaryJump("RJNE", OutOfMemory, Ra, Literal(1)),
         UnaryJump("JIF", Label("x"), Ra)>>,
       <<BinaryJump("JGT", Label("x"), Ra, Literal(0)),
         BinaryJump("RJGE", Rz, Ra, Literal(1)), UnaryJump("RJIF", OutOfMemory, Ra)>> >>

LoadFail ==
    /\ cpu.instructions = <<>>
    /\ \E k \in 1..Len(FailPrograms) : Api("load", load(cpu, FailPrograms[k]), k)

NextFail ==
    \/ SetRegister
    \/ LoadFail
    \/ Step

SpecFail == Init /\ [][NextFail]_vars

(***************************************************************************)
(* C35 as stated: whenever step fails with an error other than             *)
(* EndOfProgram, ip is still the index of the instruction that failed.     *)
(***************************************************************************)
StepFailed == StepTaken /\ InRange(cpu) /\ Raised \notin {"none", "EndOfProgram"}

FailsInStore(inst) ==
    /\ inst.name \in (BinaryNames \cup UnaryNames) \ {"CP"}
    /\ resolve(cpu, inst.a).err = "none"
    /\ "b" \in DOMAIN inst => /\ resolve(cpu, inst.b).err = "none"
                              /\ inst.name \in {"DIV", "MOD"} => Value(inst.b) # 0

C35_WitnessStore ==
    /\ result.op = "step" /\ result.err = "unknown register"
    /\ cpu.instructions = FailPrograms[1]
    /\ cpu.registers["ip"] = 1

(***************************************************************************)
(* C36: a binary or unary operation, CP included, that executes writes its *)
(* value to the one location its output reference denotes in the state     *)
(* before the instruction, the output address being resolved with the ip,  *)
(* registers and memory of that state; no other memory cell and no other   *)
(* register than ip changes.                                               *)
(***************************************************************************)
OperationValue(inst) == calc(cpu, inst, "").val

WrittenBefore(inst) == setitem(cpu, inst.out, OperationValue(inst))

C36_OneLocationWritten ==
    [][(Executed /\ ExecutedName \in BinaryNames \cup UnaryNames) =>
          LET w == WrittenBefore(CurrentInstruction(cpu))
          IN /\ w.err = "none"
             /\ cpu'.memory = w.cpu.memory
             /\ cpu'.stack = cpu.stack
             /\ \A r \in DOMAIN cpu.registers \ {"ip"} :
                   cpu'.registers[r] = w.cpu.registers[r]]_vars

(***************************************************************************)
(* SpecShare: programs that push data on the stack that CALL and RET use   *)
(* for return addresses.  The client sets register a between steps.        *)
(***************************************************************************)
SharePrograms ==
    << <<Jump("CALL", Literal(2)), I0("NOOP"), IA("PUSH", Ra), I0("RET")>>,
       <<IA("PUSH", Ra), I0("RET")>>,
       <<Jump("RCALL", Literal(1)), IA("PUSH", Literal(3)), I0("RET"), IOut("POP", Ra)>> >>

LoadShare ==
    /\ cpu.instructions = <<>>
    /\ \E k \in 1..Len(SharePrograms) : Api("load", load(cpu, SharePrograms[k]), k)

NextShare ==
    \/ SetRegister
    \/ LoadShare
    \/ Step

SpecShare == Init /\ [][NextShare]_vars

(***************************************************************************)
(* C37: RET sets ip to the value on top of the stack whoever put it there: *)
(* a RET whose last stack operation not undone is a push of v sets ip to   *)
(* v, and when the operation before that push is a call from site p, the   *)
(* return address p + 1 is still on top of the stack after the RET.        *)
(***************************************************************************)
PushedLast == pending.ops # <<>> /\ Last(pending.ops).kind = "push"

CallBeforePush ==
    /\ Len(pending.ops) >= 2
    /\ pending.ops[Len(pending.ops) - 1].kind = "call"

C37_ReturnTakesPushedValue ==
    [][(Executed /\ ExecutedName = "RET" /\ PushedLast) =>
          /\ cpu'.registers["ip"] = Last(pending.ops).arg
          /\ Len(cpu'.stack) = Len(cpu.stack) - 1
          /\ CallBeforePush =>
                Last(cpu'.stack) = pending.ops[Len(pending.ops) - 1].arg + 1]_vars

(* CALL 2 at 0, PUSH a with a = -1, RET: ip is -1 and the return address 1 is left. *)
C37_Witness ==
    /\ result.op = "step" /\ result.err = "none"
    /\ cpu.instructions = SharePrograms[1]
    /\ cpu.registers["ip"] = 0 - 1
    /\ cpu.stack = <<1>>
    /\ pending.ops = <<[kind |-> "call", arg |-> 0]>>

(* PUSH a with a = 1, RET, with no call made: ip is 1 and the stack is empty. *)
C37_WitnessNoCall ==
    /\ result.op = "step" /\ result.err = "none"
    /\ cpu.instructions = SharePrograms[2]
    /\ cpu.registers["ip"] = 1
    /\ cpu.stack = <<>>
    /\ pending.ops = <<>> /\ pending.kinds = "mixed"

(***************************************************************************)
(* C38: a conditional jump whose condition is false does not resolve its   *)
(* destination: step succeeds and sets ip to ip + 1, changing nothing      *)
(* else, also when the destination is an unknown register, an address      *)
(* outside the memory or a Label.                                          *)
(***************************************************************************)
ConditionalNames == JumpNames \ UnconditionalNames

Unresolvable(op) == resolve(cpu, op).err # "none"

FalseConditionStep ==
    /\ result'.op = "step"
    /\ InRange(cpu)
    /\ ExecutedName \in ConditionalNames
    /\ Unresolvable(CurrentInstruction(cpu).dest)
    /\ ~ConditionHolds(CurrentInstruction(cpu))

C38_FalseConditionSkipsDestination ==
    [][FalseConditionStep =>
          /\ result'.err = "none"
          /\ cpu'.registers["ip"] = Ip + 1
          /\ OtherRegistersUnchanged
          /\ cpu'.memory = cpu.memory
          /\ cpu'.stack = cpu.stack]_vars

(* JEQ(R.z, a, 0), RJNE(M[MemSize], a, 1) and JIF(Label x, a) were all passed. *)
C38_Witness ==
    /\ result.op = "step" /\ result.err = "none"
    /\ cpu.instructions = FailPrograms[9]
    /\ cpu.registers["ip"] = 3

(***************************************************************************)
(* C39: after a successful assemble every destination that came from a     *)
(* Label lies within the output or just past its end: an absolute one d    *)
(* has 0 <= d <= Len(output), a relative one delta at position p has       *)
(* 0 <= p + delta <= Len(output), and the destination such a jump computes *)
(* at its own position is in that range.                                   *)
(***************************************************************************)
AtPosition(p) == set_register(cpu, "ip", p).cpu

C39_LabelDestinationsInRange ==
    (Assembled /\ assembled.err = "none") =>
       \A j \in 1..Len(assembled.out) :
          HasLabelDest(InstructionsOf(program)[j]) =>
             LET inst == assembled.out[j]
                 n == Len(assembled.out)
             IN /\ inst.name \in AbsoluteNames =>
                      0 <= inst.dest.value /\ inst.dest.value <= n
                /\ inst.name \in RelativeNames =>
                      0 <= (j - 1) + inst.dest.value /\ (j - 1) + inst.dest.value <= n
                /\ jump_destination(AtPosition(j - 1), inst).err = "none"
                /\ jump_destination(AtPosition(j - 1), inst).val \in 0..n

(* RJMP y, CALL y, y: both destinations are the end of the output. *)
C39_Witness ==
    /\ Assembled /\ assembled.err = "none"
    /\ Len(assembled.out) = 2
    /\ HasLabelDest(InstructionsOf(program)[1]) /\ HasLabelDest(InstructionsOf(program)[2])
    /\ assembled.out[1].name = "RJMP" /\ assembled.out[1].dest = Literal(2)
    /\ assembled.out[2].name = "CALL" /\ assembled.out[2].dest = Literal(2)

(* x, JMP x, RJMP x: both destinations are the start, the relative one backwards. *)
C39_WitnessStart ==
    /\ Assembled /\ assembled.err = "none"
    /\ Len(assembled.out) = 2
    /\ HasLabelDest(InstructionsOf(program)[1]) /\ HasLabelDest(InstructionsOf(program)[2])
    /\ assembled.out[1].name = "JMP" /\ assembled.out[1].dest = Literal(0)
    /\ assembled.out[2].name = "RJMP" /\ assembled.out[2].dest = Literal(0 - 1)

(***************************************************************************)
(* C40: in a successfully assembled program, loaded and stepped at the     *)
(* position of a jump or call whose destination was a Label L, the step    *)
(* succeeds and sets ip to the position of L, whether the instruction is   *)
(* absolute (JMP, CALL, conditional) or relative (RJMP, RCALL,             *)
(* conditional): the two encodings of one label agree.  A conditional one  *)
(* whose condition is false sets ip to its position plus 1 in both         *)
(* encodings.                                                              *)
(***************************************************************************)
AssembledAt(p, v) ==
    set_register(set_register(load(cpu, assembled.out).cpu, "a", v).cpu, "ip", p).cpu

(* The condition of the conditional jumps assembled here, on a and 0. *)
Taken(n, v) ==
    \/ n \in UnconditionalNames
    \/ n \in {"JEQ", "RJEQ"} /\ v = 0
    \/ n \in {"JNE", "RJNE", "JIF", "RJIF"} /\ v # 0
    \/ n \in {"JGT", "RJGT"} /\ v > 0
    \/ n \in {"JGE", "RJGE"} /\ v >= 0

IpAfterStep(p, v) == step(AssembledAt(p, v), "").cpu.registers["ip"]

C40_AbsoluteAndRelativeAgree ==
    (Assembled /\ assembled.err = "none") =>
       \A j \in 1..Len(assembled.out) :
          (/\ HasLabelDest(InstructionsOf(program)[j])
           /\ assembled.out[j].name \in AbsoluteNames \cup RelativeNames) =>
             \A v \in Val :
                /\ step(AssembledAt(j - 1, v), "").err = "none"
                /\ IpAfterStep(j - 1, v) =
                      IF Taken(assembled.out[j].name, v)
                      THEN PositionOf(program, InstructionsOf(program)[j].dest.name)
                      ELSE j

(* CALL x, RJGT x, x: stepped at 0 and, with a = 1, at 1, both set ip to 2. *)
C40_Witness ==
    /\ Assembled /\ assembled.err = "none"
    /\ Len(assembled.out) = 2
    /\ InstructionsOf(program) = <<LabelJump("CALL", "x"), LabelJump("RJGT", "x")>>
    /\ assembled.out[1].dest = Literal(2) /\ assembled.out[2].dest = Literal(1)
    /\ IpAfterStep(0, 0) = 2
    /\ IpAfterStep(1, 1) = 2

====
